---- MODULE Spec2Model ----
(***************************************************************************)
(* Model of the video replacement pipeline:                                *)
(*   ProcessInputVideoUseCase.execute      (process_input_video.py)        *)
(*   ParallelFrameProcessor.process_frames (parallel_frame_processor.py)   *)
(*   AsyncFrameProcessor.process_frames    (async_frame_processor.py)      *)
(*   VideoReplacementResult                (video_replacement_result.py)   *)
(*                                                                         *)
(* A frame is modelled by what it was made from: the input frame index, the*)
(* pose used to warp the trailer into it and the trailer frame index, so   *)
(* that two frames are equal exactly when the code computes them from the  *)
(* same inputs along the same path.                                        *)
(***************************************************************************)
EXTENDS Integers, Sequences, FiniteSets, TLC

\* ------------------------------------------------------------------ bounds
\* Largest frame count of an input video.
MaxFrames == 3
\* Largest number of trailer frames.
MaxTrailerLen == 2
\* Stand-in for the batch limit of ParallelFrameProcessor (100 in the code),
\* scaled down so that a video of MaxFrames frames spans several batches.
BatchLimit == 2
\* Stand-in for chunk_size of AsyncFrameProcessor (50 in the code).
ChunkSize == 2
\* Stand-in for max_workers of both processors (default 4 in the code).
MaxWorkers == 2

Min(a, b) == IF a <= b THEN a ELSE b

\* ------------------------------------------------------------------ state
VARIABLES
    \* the environment of a run: the input video, the catalog, the trailer
    video_opens,     \* cap_in.isOpened() in _load_input_video
    total_frames,    \* CAP_PROP_FRAME_COUNT of the input video
    frame_outcome,   \* per input frame: what reading/tracking/compositing does
    open_fails,      \* batch starts at which _extract_frame_batch cannot open the video
    book_found,      \* detect_best_book returns a match
    trailer_len,     \* number of frames load_trailer_frames returns
    writer_opens,    \* the cv2.VideoWriter of process_frames can open output_path
    max_workers,     \* max_workers of the frame processor's constructor
    progress_callback, \* the progress_callback given to execute: "none",
                     \* "reports" (never raises) or "fails" (may raise on a
                     \* batch report of process_frames)
    \* ProcessInputVideoUseCase.execute
    processor,       \* the injected frame processor
    pc,              \* position of the sequencing thread
    result,          \* the VideoReplacementResult execute returns
    invoked,         \* process_frames has been called in this run
    results_made,    \* VideoReplacementResult objects constructed in this run
    \* process_frames (both processors)
    writer,          \* cv2.VideoWriter: "none", "open", "released"
    out,             \* frames written to the writer, in write order
    replaced_count,
    batch_start,     \* batch_start / chunk_start of the loop
    \* the executor and its tasks for the current batch
    task_arg,        \* frame_idx argument of each submitted task, in submission order
    task_state,      \* "queued", "running", "finished"
    task_val,        \* value (or exception) of each finished task
    finish_order,    \* tasks in the order they completed
    \* ParallelFrameProcessor only
    batch_data,      \* list of (idx, frame or None) of the current batch
    future_to_idx,   \* future -> position in the batch
    results,         \* result buffer of the batch
    ncollected,      \* futures already yielded by as_completed
    dispatch_count,  \* per input frame: how often it was submitted to the executor
    progress_calls,  \* the processed counts process_frames has reported to
                     \* progress_callback, in call order
    \* earlier runs on the same input, per processor
    prev,
    \* pose tracking of one frame (_compute_homography_safe / _for_frame)
    pose_processor,  \* the processor whose pose function is applied
    feature_frame,   \* what extract_features(frame) gives
    feature_book,    \* what extract_features(book_image) gave
    n_matches,       \* len(matches) returned by match_features
    matcher_raises,  \* match_features raises instead
    find_homography, \* what cv2.findHomography does
    current_H,       \* the homography handed to warpPerspective
    \* the worker tasks of one batch, inside their pose computation
    wk_pc,           \* per task: "queued", "lock", "extract", "match", "done"
    wk_lock,         \* the task holding ParallelFrameProcessor._lock (0: free)
    \* BookDetectorInVideo.detect_best_book
    readable_samples, \* which of the samples 1 (25%), 2 (50%), 3 (75%) can be read
    catalog,         \* per book: its score on each saved sample, and whether the
                     \* middle sample yields a homography for it
    min_conf,        \* the minimum confidence, in sixths
    det_pc,          \* "idle", "start", "evaluate", "returned"
    frame_data,      \* the samples that were read
    book_index,      \* position of the loop over the catalog
    best,            \* the best book so far (0: None)
    best_weighted_score,   \* in sixths
    homographies_computed, \* calls of _get_homography_for_best_match
    det_result,      \* what detect_best_book returned (0: None, -1: not yet)
    \* FindMatchingBookMovieUseCase.execute_single_comparison
    input_image,     \* cv2.imread(input_image_path): "image" or "none"
    book_image,      \* cv2.imread(book_image_path): "image" or "none"
    extract_input,   \* what extract_features does on the input image
    extract_book,    \* what extract_features does on the book image
    accepted,        \* correspondences the matcher accepts for the two images
    match_error,     \* the error the matcher raises on descriptors ("": none)
    cmp_pc,          \* "idle", "load", "extract", "match", "returned"
    cmp_result,      \* the MatchResult returned (NoComparison: not yet)
    \* FrameExtractor.extract_keyframes applied to a whole video
    kf_video,        \* histogram level of each frame of the video
    kf_emitted,      \* positions of the frames it yields (<<-1>>: not run)
    \* FrameExtractor and ProcessVideoUseCase: configuration
    frame_skip,      \* FrameExtractor.frame_skip, the sampling stride
    hist_thresh,     \* ProcessVideoUseCase.hist_thresh
    book_hashes,     \* pHash of each catalog entry, in catalog order
    phash_thresh,    \* ProcessVideoUseCase.phash_thresh
    video_file,      \* the frames of the video file (NoVideo: not fixed in
                     \* advance, each read gives any frame)
    \* FrameExtractor.extract_keyframes (the generator)
    gen_idx,         \* idx: position of the next frame to read
    last_hist,       \* last_hist (NoHist: None)
    \* ProcessVideoUseCase.execute
    vpc,             \* "idle", "next", "lookup", "filter", "match", "store",
                     \* "append", "returned", "raised"
    key_idx,         \* idx of enumerate: the cache key of the current keyframe
    cur_pos,         \* position in the video of the current keyframe
    frame,           \* the current keyframe
    frame_hash,      \* its pHash (-1: not computed)
    candidates,      \* result of _filter_candidates
    best_match,      \* result of _find_best_match_with_overlay
    video_results,   \* results
    meta_files,      \* cache: metadata record per key (NoMeta: no file)
    frame_files,     \* cache: keys that have a frame image
    overlay_files,   \* cache: <<key, book>> pairs that have an overlay image
    extractor_calls, \* extract_features calls made for the current keyframe
    matcher_calls,   \* match_features calls made for the current keyframe
    first_results    \* what the first of two calls of execute on the same
                     \* video returned (NoFirstRun: no second call yet)

envVars  == <<video_opens, total_frames, frame_outcome, open_fails, book_found,
             trailer_len, writer_opens, max_workers, progress_callback>>
taskVars == <<task_arg, task_state, task_val, finish_order>>
parVars  == <<batch_data, future_to_idx, results, ncollected>>
pipelineVars == <<envVars, taskVars, parVars, processor, pc, result, invoked,
                  results_made, writer, out, replaced_count, batch_start,
                  dispatch_count, prev, progress_calls>>
workerVars == <<wk_pc, wk_lock>>
poseVars == <<pose_processor, feature_frame, feature_book, n_matches,
              matcher_raises, find_homography, current_H, workerVars>>
\* the variables of the other components, which the pipeline leaves alone
compareVars == <<input_image, book_image, extract_input, extract_book,
                 accepted, match_error, cmp_pc, cmp_result>>
detectVars == <<readable_samples, catalog, min_conf, det_pc, frame_data,
                book_index, best, best_weighted_score, homographies_computed,
                det_result, compareVars>>
configVars == <<frame_skip, hist_thresh, book_hashes, phash_thresh, video_file>>
historyVars == <<first_results>>
genVars == <<gen_idx, last_hist>>
keyframeVars == <<kf_video, kf_emitted>>
cacheVars == <<meta_files, frame_files, overlay_files>>
videoVars == <<keyframeVars, historyVars, configVars, genVars, cacheVars, vpc, key_idx, cur_pos, frame,
               frame_hash, candidates, best_match, video_results,
               extractor_calls, matcher_calls>>
unitVars == <<poseVars, detectVars, videoVars>>
vars == <<video_opens, total_frames, frame_outcome, open_fails, book_found,
          trailer_len, writer_opens, max_workers, progress_callback, progress_calls, processor, pc, result, invoked, results_made,
          writer, out,
          replaced_count, batch_start, task_arg, task_state, task_val,
          finish_order, batch_data, future_to_idx, results, ncollected,
          dispatch_count, prev, unitVars>>

Processors == {"parallel", "async"}

\* What happens to one input frame:
\*   "readfail"  cap.read() fails for it
\*   "ok"        read, per-frame homography found, warp and blend succeed
\*   "trackfail" read, no per-frame homography, warp and blend succeed
\*   "raise"     read, the warp or blend raises
Outcomes == {"readfail", "ok", "trackfail", "raise"}

\* ----------------------------------------------------------------- frames
\* None, as returned by a task or held in an unfilled result slot.
None == [kind |-> "none", src |-> -1, pose |-> "none", tr |-> -1]
\* An exception delivered by a future.
Exc == [kind |-> "exception", src |-> -1, pose |-> "none", tr |-> -1]
\* np.zeros((h, w, 3)): the blank filler frame.
Blank == [kind |-> "filler", src |-> -1, pose |-> "none", tr |-> -1]
\* The unmodified input frame i.
Raw(i) == [kind |-> "pass", src |-> i, pose |-> "none", tr |-> -1]
\* Input frame i blended with trailer frame t warped by pose.
Composite(i, pose, t) == [kind |-> "composited", src |-> i, pose |-> pose, tr |-> t]

\* ------------------------------------------------- VideoReplacementResult
NoResult ==
    [success |-> FALSE, target_book_name |-> "", replaced_frames_count |-> 0,
     total_frames_processed |-> 0, output_video_path |-> "",
     error_message |-> "", made |-> FALSE]

ErrorResultWithStats(message) ==
    [success |-> FALSE, target_book_name |-> "error", replaced_frames_count |-> 0,
     total_frames_processed |-> total_frames, output_video_path |-> "",
     error_message |-> message, made |-> TRUE]

\* VideoReplacementResult.error(name, message, start_time)
ErrorResult(message) ==
    [success |-> FALSE, target_book_name |-> "error", replaced_frames_count |-> 0,
     total_frames_processed |-> 0, output_video_path |-> "",
     error_message |-> message, made |-> TRUE]

SuccessResultMiscounted(count) ==
    [success |-> TRUE, target_book_name |-> "book", replaced_frames_count |-> count,
     total_frames_processed |-> count, output_video_path |-> "output",
     error_message |-> "", made |-> TRUE]

\* The result built at the end of execute.
SuccessResult(count) ==
    [success |-> TRUE, target_book_name |-> "book", replaced_frames_count |-> count,
     total_frames_processed |-> total_frames, output_video_path |-> "output",
     error_message |-> "", made |-> TRUE]

\* ------------------------------------------------------- per-frame work
\* _compute_homography_safe: the per-frame estimate, else base_homography.
ComputeHomographySafe(i) ==
    IF frame_outcome[i] = "ok" THEN "tracked" ELSE "base"

\* _compute_homography_for_frame: the per-frame estimate, else base_homography.
ComputeHomographyForFrame(i) ==
    IF frame_outcome[i] = "ok" THEN "tracked" ELSE "base"

TrailerIndexWrapping(i, L) == i % L

\* min(frame_idx, len(trailer_frames) - 1): the trailer frame for input
\* frame i, the trailer having L frames.
TrailerIndex(i, L) == Min(i, L - 1)

ProcessSingleFrameNoFallback(i) ==
    IF trailer_len = 0 THEN Raw(i)
    ELSE IF frame_outcome[i] \in {"raise", "trackfail"} THEN Raw(i)
    ELSE Composite(i, ComputeHomographySafe(i), TrailerIndex(i, trailer_len))

\* _process_single_frame_safe on the (readable) frame i: any error inside
\* returns the frame unchanged.
ProcessSingleFrameSafe(i) ==
    IF trailer_len = 0 THEN Raw(i)
    ELSE IF frame_outcome[i] = "raise" THEN Raw(i)
    ELSE Composite(i, ComputeHomographySafe(i), TrailerIndex(i, trailer_len))

\* _process_frame_by_index: reads frame i itself; None when the read fails,
\* an exception when the trailer is empty or the warp or blend raises.
ProcessFrameByIndex(i) ==
    IF frame_outcome[i] = "readfail" THEN None
    ELSE IF trailer_len = 0 \/ frame_outcome[i] = "raise" THEN Exc
    ELSE Composite(i, ComputeHomographyForFrame(i), TrailerIndex(i, trailer_len))

\* ---------------------------------------------------------- batch helpers
\* batch_size = min(100, total_frames)
BatchSize(n) == Min(BatchLimit, n)

\* The values batch_start takes in range(0, total_frames, batch_size).
BatchStarts(n) ==
    IF n = 0 THEN {} ELSE {s \in 0..(n - 1) : s % BatchSize(n) = 0}

ExtractFrameBatchAborting(start, end) ==
    IF start \in open_fails \/ \E i \in start..(end - 1) : frame_outcome[i] = "readfail"
    THEN << >>
    ELSE [k \in 1..(end - start) |-> [idx |-> start + k - 1, ok |-> TRUE]]

\* _extract_frame_batch: [] when the video cannot be opened, else one entry
\* per index, with frame None where the read failed.
ExtractFrameBatch(start, end) ==
    IF start \in open_fails THEN << >>
    ELSE [k \in 1..(end - start) |->
            [idx |-> start + k - 1, ok |-> frame_outcome[start + k - 1] # "readfail"]]

FillerFramesSkipped(n) == << >>

\* The blank frames written for a batch that could not be extracted.
FillerFrames(n) == [k \in 1..n |-> Blank]

ValidPositionsFirstOnly(data, k) ==
    IF \E p \in k..Len(data) : data[p].ok
    THEN <<CHOOSE p \in k..Len(data) :
              data[p].ok /\ \A q \in k..(p - 1) : ~data[q].ok>>
    ELSE << >>

\* Positions of the batch whose frame is valid, in submission order.
RECURSIVE ValidPositions(_, _)
ValidPositions(data, k) ==
    IF k > Len(data) THEN << >>
    ELSE IF data[k].ok THEN <<k>> \o ValidPositions(data, k + 1)
    ELSE ValidPositions(data, k + 1)

ResultSlotByCompletion(f, n) == n + 1

\* results[batch_idx]: the slot a yielded future f fills, n futures having
\* been yielded before it.
ResultSlot(f, n) == future_to_idx[f]

GatherInCompletionOrder(vals, order) == [k \in 1..Len(vals) |-> vals[order[k]]]

\* asyncio.gather: the values of the tasks in the order the tasks were passed.
Gather(vals, order) == vals

ExceptionLosesChunk(gathered) ==
    IF \E k \in 1..Len(gathered) : gathered[k] = Exc
    THEN [k \in 1..Len(gathered) |-> None]
    ELSE gathered

\* _process_chunk_async after gather: a task's exception becomes None, the
\* values of the other tasks are kept.
ExceptionsToNone(gathered) ==
    [k \in 1..Len(gathered) |-> IF gathered[k] = Exc THEN None ELSE gathered[k]]

\* The frames a write loop appends for a list of results, None being skipped.
RECURSIVE NonNone(_)
NonNone(s) ==
    IF s = << >> THEN << >>
    ELSE IF Head(s) # None THEN <<Head(s)>> \o NonNone(Tail(s))
    ELSE NonNone(Tail(s))

SomeFinished ==
    task_state = << >> \/ \E f \in 1..Len(task_state) : task_state[f] = "finished"

Running == {f \in 1..Len(task_state) : task_state[f] = "running"}
AllFinished == \A f \in 1..Len(task_state) : task_state[f] = "finished"

NoRun == [ran |-> FALSE, out |-> << >>, replaced |-> 0]

\* ---------------------------------------------------------- pose tracking
\* Largest number of correspondences match_features returns.
MaxMatches == 5
\* `len(matches) >= 4`: the fewest correspondences a homography is fitted to.
MinCorrespondences == 4

\* What extract_features gives a caller that reads `.descriptors` of it:
\*   "descriptors"    features with descriptors
\*   "no_descriptors" features whose descriptors are None
\*   "no_attribute"   an object without that attribute, as the
\*                    (keypoints, descriptors) tuple SIFTExtractor returns:
\*                    reading the attribute raises AttributeError
\*   "raises"         the extraction itself raises
FeatureResults == {"descriptors", "no_descriptors", "no_attribute", "raises"}
\* feature_book was extracted by process_frames before any frame is handled.
BookFeatureResults == {"descriptors", "no_descriptors", "no_attribute"}
\* cv2.findHomography returns a matrix, returns None, or raises.
FitResults == {"matrix", "none", "raises"}

\* The try block shared by _compute_homography_safe and
\* _compute_homography_for_frame, statement by statement: "tracked" when it
\* returns H, "exception" when a statement raises, "fallthrough" when it ends
\* without returning.
HomographyTry(ff, fb, n, raises, fit) ==
    IF ff = "raises" THEN "exception"
    ELSE IF ff = "no_attribute" THEN "exception"
    ELSE IF ff = "no_descriptors" THEN "fallthrough"
    ELSE IF fb = "no_attribute" THEN "exception"
    ELSE IF fb = "no_descriptors" THEN "fallthrough"
    ELSE IF raises THEN "exception"
    ELSE IF n < MinCorrespondences THEN "fallthrough"
    ELSE IF fit = "raises" THEN "exception"
    ELSE IF fit = "none" THEN "fallthrough"
    ELSE "tracked"

compute_homography_unguarded(ff, fb, n, raises, fit) ==
    LET r == HomographyTry(ff, fb, n, raises, fit)
    IN  IF r = "fallthrough" THEN "base" ELSE r

\* ParallelFrameProcessor._compute_homography_safe: `except Exception` prints
\* and falls through to `return base_homography`.
compute_homography_safe(ff, fb, n, raises, fit) ==
    IF HomographyTry(ff, fb, n, raises, fit) = "tracked" THEN "tracked" ELSE "base"

\* AsyncFrameProcessor._compute_homography_for_frame: `except Exception: pass`.
compute_homography_for_frame(ff, fb, n, raises, fit) ==
    IF HomographyTry(ff, fb, n, raises, fit) = "tracked" THEN "tracked" ELSE "base"

\* No pose is being computed.
PoseUnused ==
    /\ pose_processor = "none"
    /\ feature_frame = "raises"
    /\ feature_book = "no_descriptors"
    /\ n_matches = 0
    /\ matcher_raises = FALSE
    /\ find_homography = "none"
    /\ current_H = "unset"
    /\ wk_pc = << >>
    /\ wk_lock = 0

\* --------------------------------------------------------- book detection
\* Largest number of catalog entries.
MaxBooks == 2
\* Largest confidence score (accepted correspondences) of one comparison.
MaxScore == 1
\* Largest minimum confidence, in sixths.
MaxMinConf == 3

\* The three sample positions total_frames // 4, // 2 and * 3 // 4.
Samples == {1, 2, 3}

\* The samples in s, in ascending order.
RECURSIVE Ascending(_)
Ascending(s) ==
    IF s = {} THEN << >>
    ELSE LET m == CHOOSE x \in s : \A y \in s : x <= y
         IN  <<m>> \o Ascending(s \ {m})

calculate_book_weighted_score_partial(frame_scores) ==
    LET weighted(k) == IF k <= Len(frame_scores) THEN k * frame_scores[k] ELSE 0
    IN  weighted(1) + weighted(2) + weighted(3)

\* _calculate_book_weighted_score: (0.5*s[0] + 1.0*s[1] + 1.5*s[2]) / 3.0 when
\* there are three scores, else 0.0.  The value is kept in sixths, which
\* orders the averages as the quotients do.
calculate_book_weighted_score(frame_scores) ==
    IF Len(frame_scores) = 3
    THEN frame_scores[1] + 2 * frame_scores[2] + 3 * frame_scores[3]
    ELSE 0

\* ------------------------------------------------- single comparison
\* What extract_features can do on an image: return a pair with descriptors,
\* a pair whose descriptors are None (no feature found), an object that is
\* not a pair (the ExtractFeatureData of IFeatureExtractor), or raise.
ExtractOutcomes == {"descriptors", "no_descriptors", "not_a_pair", "raises"}

\* str(ex) of the errors of the extractor and the matcher.
ErrorTexts == {"cv2.error", "TypeError"}

\* No MatchResult has been returned.  error_message is << >> for None and
\* <<text>> for a string.
NoComparison ==
    [source_name |-> "", target_name |-> "", matches |-> << >>,
     confidence_score |-> -1, good_matches_count |-> -1,
     target_image_path |-> "", error_message |-> << >>]

ErrorResultSilent(ex) ==
    [source_name |-> "input", target_name |-> "book", matches |-> << >>,
     confidence_score |-> 0, good_matches_count |-> 0,
     target_image_path |-> "book_image_path", error_message |-> << >>]

\* The MatchResult built in `except Exception as ex`, ex having the text ex.
ComparisonError(ex) ==
    [source_name |-> "input", target_name |-> "book", matches |-> << >>,
     confidence_score |-> 0, good_matches_count |-> 0,
     target_image_path |-> "book_image_path", error_message |-> <<ex>>]

\* The MatchResult built from `matches`, a list of n accepted correspondences.
ComparisonResult(n) ==
    [source_name |-> "input", target_name |-> "book",
     matches |-> [k \in 1..n |-> k],
     confidence_score |-> n, good_matches_count |-> n,
     target_image_path |-> "book_image_path", error_message |-> << >>]

\* `keypoints, descriptors = extract_features(image)`: the text of the
\* exception of the statement, "" when it completes.
ExtractError(outcome) ==
    CASE outcome = "raises" -> "cv2.error"
      [] outcome = "not_a_pair" -> "TypeError"
      [] OTHER -> ""

\* FLANNMatcher.match_features: [] when a descriptor array is None, else the
\* accepted correspondences of knnMatch.
match_features(desc1, desc2, n) ==
    IF desc1 = "no_descriptors" \/ desc2 = "no_descriptors" THEN 0 ELSE n

\* execute_single_comparison is not running.
CompareUnused ==
    /\ input_image = "none"
    /\ book_image = "none"
    /\ extract_input = "raises"
    /\ extract_book = "raises"
    /\ accepted = 0
    /\ match_error = ""
    /\ cmp_pc = "idle"
    /\ cmp_result = NoComparison

\* detect_best_book is not running.
DetectUnused ==
    /\ CompareUnused
    /\ readable_samples = {}
    /\ catalog = << >>
    /\ min_conf = 0
    /\ det_pc = "idle"
    /\ frame_data = << >>
    /\ book_index = 0
    /\ best = 0
    /\ best_weighted_score = 0
    /\ homographies_computed = 0
    /\ det_result = -1

\* ------------------------------------------- keyframes, candidates, cache
\* Largest number of frames of a video given to ProcessVideoUseCase.
MaxVideoLen == 3
\* Largest histogram level of a frame.
MaxHist == 2
\* Largest sampling stride.
MaxStride == 2
\* Number of bits of a pHash (64 in the code).
HashBits == 2

Hashes == 0..(2^HashBits - 1)
\* A frame, as far as the keyframe selector and the candidate filter look at
\* it: the level of its normalised histogram and its pHash.
FrameImages == [hist : 0..MaxHist, phash : Hashes]
NoFrame == [hist |-> -1, phash |-> -1]
\* The video is not fixed in advance.
NoVideo == <<NoFrame>>
\* last_hist = None
NoHist == -1
Keys == 0..(MaxVideoLen - 1)

\* cv2.compareHist(a, b, HISTCMP_BHATTACHARYYA): a distance, 0 for a = b.
compareHist(a, b) == IF a >= b THEN a - b ELSE b - a

\* `if idx % self.frame_skip == 0`
Sampled(idx, skip) == idx % skip = 0

\* The frame at position idx with histogram hist is yielded:
\* `last_hist is None or compareHist(last_hist, hist) > hist_thresh`.
Yields(idx, last, hist, skip, thresh) ==
    /\ Sampled(idx, skip)
    /\ \/ last = NoHist
       \/ compareHist(last, hist) > thresh

TakesSampledHist(emit, last, hist) == hist

\* `last_hist = hist` is executed only on the branch that yields.
LastHistAfter(emit, last, hist) == IF emit THEN hist ELSE last

\* extract_keyframes from position idx on: the positions it yields.
RECURSIVE KeyframesFrom(_, _, _, _, _)
KeyframesFrom(video, idx, last, skip, thresh) ==
    IF idx >= Len(video) THEN << >>
    ELSE LET hist == video[idx + 1]
             emit == Yields(idx, last, hist, skip, thresh)
             next == IF Sampled(idx, skip)
                     THEN LastHistAfter(emit, last, hist) ELSE last
         IN  (IF emit THEN <<idx>> ELSE << >>)
             \o KeyframesFrom(video, idx + 1, next, skip, thresh)

\* FrameExtractor.extract_keyframes on a video that opens.
extract_keyframes(video, skip, thresh) ==
    KeyframesFrom(video, 0, NoHist, skip, thresh)

\* frame_hash ^ bh
RECURSIVE BitXor(_, _)
BitXor(a, b) ==
    IF a = 0 /\ b = 0 THEN 0
    ELSE (((a % 2) + (b % 2)) % 2) + 2 * BitXor(a \div 2, b \div 2)

\* bin(x).count("1")
RECURSIVE CountOnes(_)
CountOnes(x) == IF x = 0 THEN 0 ELSE (x % 2) + CountOnes(x \div 2)

\* _compute_pHash(frame)
compute_pHash(f) == f.phash

filter_candidates_strict(hash, hashes, thresh) ==
    SelectSeq([b \in 1..Len(hashes) |-> b],
              LAMBDA b : CountOnes(BitXor(hash, hashes[b])) < thresh)

\* _filter_candidates(frame_hash): the names (catalog positions) in the order
\* of book_hashes.
filter_candidates(hash, hashes, thresh) ==
    SelectSeq([b \in 1..Len(hashes) |-> b],
              LAMBDA b : CountOnes(BitXor(hash, hashes[b])) <= thresh)

\* A MatchResult as process_video.py builds and reads it.  Names and paths
\* are represented by what they are made from: source_name and
\* source_frame_path by the frame index, target_name and target_image_path by
\* the book; matches is the length of the match list; overlay_image_path is
\* 0 for None.  NoMatch stands for best_match = None.
NoMatch == [source_name |-> -1, target_name |-> 0, matches |-> 0,
            confidence_score |-> 0, good_matches_count |-> 0,
            target_image_path |-> 0, source_frame_path |-> -1,
            overlay_image_path |-> 0]

\* The MatchResult built for book b with score accepted correspondences on
\* the keyframe with index k; overlay tells whether an overlay was saved.
NewMatch(k, b, score, overlay) ==
    [source_name |-> k, target_name |-> b, matches |-> score,
     confidence_score |-> score, good_matches_count |-> score,
     target_image_path |-> b, source_frame_path |-> k,
     overlay_image_path |-> IF overlay THEN b ELSE 0]

\* A key that a metadata record does not have.
NoKey == -1
\* The metadata file of a key.  file tells what the file holds: "absent" (no
\* file), "record" (a JSON object with every required key), "unparseable"
\* (not JSON), "incomplete" (a JSON object lacking a required key).
NoMeta == [file |-> "absent", source_name |-> -1, target_name |-> -1,
           confidence_score |-> -1, good_matches_count |-> -1,
           target_image_path |-> -1, source_frame_path |-> -1,
           overlay_image_path |-> NoKey]
UnparseableMeta == [NoMeta EXCEPT !.file = "unparseable"]
IncompleteMeta == [NoMeta EXCEPT !.file = "incomplete"]

\* The meta dict execute writes for best: overlay_image_path is added only
\* when it is set.
MetaOf(b) ==
    [file |-> "record", source_name |-> b.source_name,
     target_name |-> b.target_name, confidence_score |-> b.confidence_score,
     good_matches_count |-> b.good_matches_count,
     target_image_path |-> b.target_image_path,
     source_frame_path |-> b.source_frame_path,
     overlay_image_path |-> IF b.overlay_image_path # 0
                            THEN b.overlay_image_path ELSE NoKey]

FromMetaWithoutScore(data) ==
    [source_name |-> data.source_name, target_name |-> data.target_name,
     matches |-> 0, confidence_score |-> 0,
     good_matches_count |-> data.good_matches_count,
     target_image_path |-> data.target_image_path,
     source_frame_path |-> data.source_frame_path,
     overlay_image_path |-> IF data.overlay_image_path = NoKey
                            THEN 0 ELSE data.overlay_image_path]

\* The MatchResult execute builds from a cached record: matches = [] and
\* overlay_image_path = data.get("overlay_image_path").
FromMeta(data) ==
    [source_name |-> data.source_name, target_name |-> data.target_name,
     matches |-> 0, confidence_score |-> data.confidence_score,
     good_matches_count |-> data.good_matches_count,
     target_image_path |-> data.target_image_path,
     source_frame_path |-> data.source_frame_path,
     overlay_image_path |-> IF data.overlay_image_path = NoKey
                            THEN 0 ELSE data.overlay_image_path]

save_frame_skipped(frames, k) == frames

\* _save_frame_if_not_exists: the frame image of key k exists afterwards.
save_frame_if_not_exists(frames, k) == frames \cup {k}

CacheHitOnMetaOnly(metas, frames, k) == metas[k] # NoMeta

\* `meta_path.exists() and frame_path.exists()`
CacheHit(metas, frames, k) == metas[k] # NoMeta /\ k \in frames

RECURSIVE FindBestLoopAcceptsZero(_, _, _, _, _)
FindBestLoopAcceptsZero(cands, k, score, overlay, acc) ==
    IF cands = << >> THEN acc
    ELSE LET b == Head(cands)
         IN  IF score[b] >= acc.best_score
             THEN FindBestLoopAcceptsZero(Tail(cands), k, score, overlay,
                    [best_score |-> score[b],
                     best_match |-> NewMatch(k, b, score[b], overlay[b]),
                     overlays |-> IF overlay[b]
                                  THEN acc.overlays \cup {<<k, b>>}
                                  ELSE acc.overlays])
             ELSE FindBestLoopAcceptsZero(Tail(cands), k, score, overlay, acc)

\* _find_best_match_with_overlay: the loop over the candidates cands, in
\* catalog order, for the keyframe with cache key k.  score[b] is
\* len(matches) for book b and overlay[b] tells whether overlay_book_on_image
\* returns an image for it.  acc holds best_score, best_match and the overlay
\* files written so far.
RECURSIVE FindBestLoop(_, _, _, _, _)
FindBestLoop(cands, k, score, overlay, acc) ==
    IF cands = << >> THEN acc
    ELSE LET b == Head(cands)
         IN  IF score[b] > acc.best_score
             THEN FindBestLoop(Tail(cands), k, score, overlay,
                    [best_score |-> score[b],
                     best_match |-> NewMatch(k, b, score[b], overlay[b]),
                     overlays |-> IF overlay[b]
                                  THEN acc.overlays \cup {<<k, b>>}
                                  ELSE acc.overlays])
             ELSE FindBestLoop(Tail(cands), k, score, overlay, acc)

\* `if not candidates: continue`, else _find_best_match_with_overlay is called.
AfterFilterAlwaysMatches(cands) == "match"

AfterFilter(cands) == IF cands = << >> THEN "next" ELSE "match"

\* The number of frames cap.read() can give, and the frames it can give at
\* position i.
VideoLength == IF video_file = NoVideo THEN MaxVideoLen ELSE Len(video_file)
FramesAt(i) == IF video_file = NoVideo THEN FrameImages ELSE {video_file[i + 1]}

\* execute has not been called a second time.
NoFirstRun == <<NoMatch>>

\* execute has not been called and the cache directory is empty.
VideoIdle ==
    /\ first_results = NoFirstRun
    /\ gen_idx = 0
    /\ last_hist = NoHist
    /\ vpc = "idle"
    /\ key_idx = -1
    /\ cur_pos = -1
    /\ frame = NoFrame
    /\ frame_hash = -1
    /\ candidates = << >>
    /\ best_match = NoMatch
    /\ video_results = << >>
    /\ meta_files = [k \in Keys |-> NoMeta]
    /\ frame_files = {}
    /\ overlay_files = {}
    /\ extractor_calls = 0
    /\ matcher_calls = 0

\* Neither the keyframe selector nor ProcessVideoUseCase is in use.
VideoUnused ==
    /\ video_file = NoVideo
    /\ frame_skip = 1
    /\ hist_thresh = 0
    /\ book_hashes = << >>
    /\ phash_thresh = 0
    /\ kf_video = << >>
    /\ kf_emitted = <<-1>>
    /\ VideoIdle

\* ------------------------------------------------------------------- Init
\* The state before execute is called, the caller's progress callback being
\* one of callbacks.
InitPipeline(callbacks) ==
    /\ video_opens \in BOOLEAN
    /\ book_found \in BOOLEAN
    /\ trailer_len \in 0..MaxTrailerLen
    /\ \E n \in 0..MaxFrames :
         /\ total_frames = n
         /\ frame_outcome \in [0..(n - 1) -> Outcomes]
         /\ open_fails \in SUBSET BatchStarts(n)
    \* inputs no run can observe are held at one value
    /\ ~video_opens => total_frames = 0 /\ ~book_found
    /\ ~book_found => trailer_len = 0
    /\ writer_opens \in BOOLEAN
    /\ max_workers = MaxWorkers
    /\ progress_callback \in callbacks
    /\ trailer_len = 0 =>
         /\ writer_opens
         /\ open_fails = {}
         /\ \A i \in 0..(total_frames - 1) : frame_outcome[i] = "ok"
    /\ processor = "none"
    /\ pc = "idle"
    /\ result = NoResult
    /\ invoked = FALSE
    /\ results_made = 0
    /\ writer = "none"
    /\ out = << >>
    /\ replaced_count = 0
    /\ batch_start = 0
    /\ task_arg = << >>
    /\ task_state = << >>
    /\ task_val = << >>
    /\ finish_order = << >>
    /\ batch_data = << >>
    /\ future_to_idx = << >>
    /\ results = << >>
    /\ ncollected = 0
    /\ dispatch_count = [i \in 0..(total_frames - 1) |-> 0]
    /\ progress_calls = << >>
    /\ prev = [p \in Processors |-> NoRun]
    /\ PoseUnused
    /\ DetectUnused
    /\ VideoUnused

\* The caller's callback, if any, does not raise.
Init == InitPipeline({"none", "reports"})

\* process_frames has just been called by execute, with a callback that may
\* raise on a report.
InitFrames ==
    /\ video_opens = TRUE
    /\ book_found = TRUE
    /\ trailer_len \in 1..MaxTrailerLen
    /\ \E n \in 0..MaxFrames :
         /\ total_frames = n
         /\ frame_outcome \in [0..(n - 1) -> Outcomes]
         /\ open_fails \in SUBSET BatchStarts(n)
    /\ writer_opens \in BOOLEAN
    /\ max_workers \in 1..MaxWorkers
    /\ progress_callback \in {"none", "reports", "fails"}
    /\ processor \in Processors
    /\ pc = "frames"
    /\ result = NoResult
    /\ invoked = FALSE
    /\ results_made = 0
    /\ writer = "none"
    /\ out = << >>
    /\ replaced_count = 0
    /\ batch_start = 0
    /\ task_arg = << >>
    /\ task_state = << >>
    /\ task_val = << >>
    /\ finish_order = << >>
    /\ batch_data = << >>
    /\ future_to_idx = << >>
    /\ results = << >>
    /\ ncollected = 0
    /\ dispatch_count = [i \in 0..(total_frames - 1) |-> 0]
    /\ progress_calls = << >>
    /\ prev = [p \in Processors |-> NoRun]
    /\ PoseUnused
    /\ DetectUnused
    /\ VideoUnused

\* ------------------------------------------ ProcessInputVideoUseCase.execute
\* A use case is built around processor p and execute is called: the input
\* video is loaded.  A finished earlier run is kept in prev.
Execute(p) ==
    /\ pc \in {"idle", "done", "raised"}
    /\ prev' = IF pc = "done" /\ result.success
               THEN [prev EXCEPT ![processor] =
                        [ran |-> TRUE, out |-> out, replaced |-> result.replaced_frames_count]]
               ELSE prev
    /\ processor' = p
    /\ invoked' = FALSE
    /\ writer' = "none"
    /\ out' = << >>
    /\ replaced_count' = 0
    /\ batch_start' = 0
    /\ task_arg' = << >>
    /\ task_state' = << >>
    /\ task_val' = << >>
    /\ finish_order' = << >>
    /\ batch_data' = << >>
    /\ future_to_idx' = << >>
    /\ results' = << >>
    /\ ncollected' = 0
    /\ dispatch_count' = [i \in 0..(total_frames - 1) |-> 0]
    /\ progress_calls' = << >>
    /\ IF video_opens
       THEN /\ pc' = "detect"
            /\ result' = NoResult
            /\ results_made' = 0
       ELSE /\ pc' = "done"
            /\ result' = ErrorResult("Cannot open input video")
            /\ results_made' = 1
    /\ UNCHANGED <<envVars, unitVars>>

\* detect_best_book and the check of its result.
DetectBook ==
    /\ pc = "detect"
    /\ IF book_found
       THEN /\ pc' = "trailer"
            /\ UNCHANGED <<result, results_made>>
       ELSE /\ pc' = "done"
            /\ result' = ErrorResult("No book detected")
            /\ results_made' = results_made + 1
    /\ UNCHANGED <<envVars, unitVars, taskVars, parVars, processor, invoked, writer, out,
                   replaced_count, batch_start, dispatch_count, prev, progress_calls>>

\* load_trailer_frames and the check of its result.
LoadTrailer ==
    /\ pc = "trailer"
    /\ IF trailer_len > 0
       THEN /\ pc' = "frames"
            /\ UNCHANGED <<result, results_made>>
       ELSE /\ pc' = "done"
            /\ result' = ErrorResult("No frames in trailer")
            /\ results_made' = results_made + 1
    /\ UNCHANGED <<envVars, unitVars, taskVars, parVars, processor, invoked, writer, out,
                   replaced_count, batch_start, dispatch_count, prev, progress_calls>>

\* process_frames has returned replaced_count: the success result is built.
ExecuteFinish ==
    /\ pc = "returned"
    /\ result' = SuccessResult(replaced_count)
    /\ results_made' = results_made + 1
    /\ pc' = "done"
    /\ UNCHANGED <<envVars, unitVars, taskVars, parVars, processor, invoked, writer, out,
                   replaced_count, batch_start, dispatch_count, prev, progress_calls>>

\* ------------------------------------------- the progress callback
\* `if progress_callback: progress_callback(...)` at the end of a loop
\* iteration of process_frames, after the frames of the batch were written:
\* processed is the count the message reports, next_start where the loop goes
\* on, loop the loop head.  A callback that raises ends process_frames: the
\* writer is then in the state writer_after, "released" where the loop runs
\* under try/finally and the state it had where it does not.
ReportProgress(processed, next_start, loop, writer_after) ==
    \/ /\ progress_callback = "none"
       /\ batch_start' = next_start
       /\ pc' = loop
       /\ UNCHANGED <<writer, progress_calls>>
    \/ /\ progress_callback # "none"
       /\ progress_calls' = Append(progress_calls, processed)
       /\ batch_start' = next_start
       /\ pc' = loop
       /\ UNCHANGED writer
    \/ /\ progress_callback = "fails"
       /\ progress_calls' = Append(progress_calls, processed)
       /\ writer' = writer_after
       /\ pc' = "raised"
       /\ UNCHANGED batch_start

\* ------------------------------------------------------ the worker pool
\* A worker thread of the executor picks up a queued task.
TaskStart(f) ==
    /\ pc \in {"p_collect", "a_gather"}
    /\ f \in 1..Len(task_state)
    /\ task_state[f] = "queued"
    /\ Cardinality(Running) < max_workers
    /\ task_state' = [task_state EXCEPT ![f] = "running"]
    /\ UNCHANGED <<envVars, unitVars, parVars, processor, pc, result, results_made, invoked, writer, out,
                   replaced_count, batch_start, task_arg, task_val, finish_order,
                   dispatch_count, prev, progress_calls>>

\* The task's function returns (or raises) and its future completes.
TaskFinish(f) ==
    /\ pc \in {"p_collect", "a_gather"}
    /\ f \in 1..Len(task_state)
    /\ task_state[f] = "running"
    /\ task_state' = [task_state EXCEPT ![f] = "finished"]
    /\ task_val' = [task_val EXCEPT ![f] =
                      IF processor = "parallel"
                      THEN ProcessSingleFrameSafe(task_arg[f])
                      ELSE ProcessFrameByIndex(task_arg[f])]
    /\ finish_order' = Append(finish_order, f)
    /\ UNCHANGED <<envVars, unitVars, parVars, processor, pc, result, results_made, invoked, writer, out,
                   replaced_count, batch_start, task_arg, dispatch_count, prev, progress_calls>>

\* ----------------------------------- ParallelFrameProcessor.process_frames
\* The writer is created and the batch loop is entered; range() with a step
\* of 0 raises ValueError, which the finally clause lets through after
\* releasing the writer.
ParallelStart ==
    /\ pc = "frames"
    /\ processor = "parallel"
    /\ invoked' = TRUE
    /\ replaced_count' = 0
    /\ batch_start' = 0
    /\ IF BatchSize(total_frames) = 0
       THEN /\ writer' = "released"
            /\ pc' = "raised"
       ELSE /\ writer' = IF writer_opens THEN "open" ELSE "failed"
            /\ pc' = "p_extract"
    /\ UNCHANGED <<envVars, unitVars, taskVars, parVars, processor, result, results_made, out,
                   dispatch_count, prev, progress_calls>>

\* One iteration of the batch loop up to the extraction: either the batch
\* cannot be extracted and blank frames are written for it, or batch_data
\* is handed to _process_batch_parallel.
P_ExtractBatch ==
    /\ pc = "p_extract"
    /\ batch_start < total_frames
    /\ LET batch_end == Min(batch_start + BatchSize(total_frames), total_frames)
           data == ExtractFrameBatch(batch_start, batch_end)
       IN IF data = << >>
          THEN /\ out' = out \o FillerFrames(batch_end - batch_start)
               /\ batch_start' = batch_start + BatchSize(total_frames)
               /\ UNCHANGED <<pc, batch_data>>
          ELSE /\ batch_data' = data
               /\ pc' = "p_submit"
               /\ UNCHANGED <<out, batch_start>>
    /\ UNCHANGED <<envVars, unitVars, taskVars, processor, result, results_made, invoked, writer,
                   replaced_count, future_to_idx, results, ncollected,
                   dispatch_count, prev, progress_calls>>

\* _process_batch_parallel, submission loop: a task per valid frame, a blank
\* frame in the slot of each missing frame.
P_SubmitBatch ==
    /\ pc = "p_submit"
    /\ LET valid == ValidPositions(batch_data, 1)
       IN /\ future_to_idx' = valid
          /\ task_arg' = [f \in 1..Len(valid) |-> batch_data[valid[f]].idx]
          /\ task_state' = [f \in 1..Len(valid) |-> "queued"]
          /\ task_val' = [f \in 1..Len(valid) |-> None]
          /\ dispatch_count' =
                [i \in DOMAIN dispatch_count |->
                    IF \E f \in 1..Len(valid) : batch_data[valid[f]].idx = i
                    THEN dispatch_count[i] + 1 ELSE dispatch_count[i]]
    /\ results' = [k \in 1..Len(batch_data) |->
                      IF batch_data[k].ok THEN None ELSE Blank]
    /\ finish_order' = << >>
    /\ ncollected' = 0
    /\ pc' = "p_collect"
    /\ UNCHANGED <<envVars, unitVars, processor, result, results_made, invoked, writer, out,
                   replaced_count, batch_start, batch_data, prev, progress_calls>>

\* as_completed yields the next completed future and its result is stored; a
\* future that raised leaves a blank frame.
P_Collect ==
    /\ pc = "p_collect"
    /\ ncollected < Len(finish_order)
    /\ LET f == finish_order[ncollected + 1]
           slot == ResultSlot(f, ncollected)
       IN results' = [results EXCEPT ![slot] =
                         IF task_val[f] = Exc THEN Blank ELSE task_val[f]]
    /\ ncollected' = ncollected + 1
    /\ UNCHANGED <<envVars, unitVars, taskVars, processor, pc, result, results_made, invoked, writer, out,
                   replaced_count, batch_start, batch_data, future_to_idx,
                   dispatch_count, prev, progress_calls>>

\* All futures were yielded: the batch is written in slot order and the loop
\* moves to the next batch.
P_WriteBatch ==
    /\ pc = "p_collect"
    /\ ncollected = Len(task_state)
    /\ out' = out \o [k \in 1..Len(results) |->
                        IF results[k] # None THEN results[k] ELSE Blank]
    /\ replaced_count' = replaced_count + Len(NonNone(results))
    /\ ReportProgress(Min(batch_start + BatchSize(total_frames), total_frames),
                      batch_start + BatchSize(total_frames), "p_extract",
                      "released")
    /\ UNCHANGED <<envVars, unitVars, taskVars, parVars, processor, result, results_made, invoked,
                   dispatch_count, prev>>

\* The batch loop is exhausted: the writer is released, replaced_count returned.
P_Return ==
    /\ pc = "p_extract"
    /\ batch_start >= total_frames
    /\ writer' = "released"
    /\ pc' = "returned"
    /\ UNCHANGED <<envVars, unitVars, taskVars, parVars, processor, result, results_made, invoked, out,
                   replaced_count, batch_start, dispatch_count, prev, progress_calls>>

\* -------------------------------------- AsyncFrameProcessor.process_frames
\* The writer is created and the chunk loop is entered.
AsyncStart ==
    /\ pc = "frames"
    /\ processor = "async"
    /\ invoked' = TRUE
    /\ writer' = IF writer_opens THEN "open" ELSE "failed"
    /\ replaced_count' = 0
    /\ batch_start' = 0
    /\ pc' = "a_chunk"
    /\ UNCHANGED <<envVars, unitVars, taskVars, parVars, processor, result, results_made, out,
                   dispatch_count, prev, progress_calls>>

\* _process_chunk_async, task creation: one executor task per index.
A_SubmitChunk ==
    /\ pc = "a_chunk"
    /\ batch_start < total_frames
    /\ LET chunk_end == Min(batch_start + ChunkSize, total_frames)
           n == chunk_end - batch_start
       IN /\ task_arg' = [f \in 1..n |-> batch_start + f - 1]
          /\ task_state' = [f \in 1..n |-> "queued"]
          /\ task_val' = [f \in 1..n |-> None]
          /\ dispatch_count' =
                [i \in DOMAIN dispatch_count |->
                    IF i \in batch_start..(chunk_end - 1)
                    THEN dispatch_count[i] + 1 ELSE dispatch_count[i]]
    /\ finish_order' = << >>
    /\ pc' = "a_gather"
    /\ UNCHANGED <<envVars, unitVars, parVars, processor, result, results_made, invoked, writer, out,
                   replaced_count, batch_start, prev, progress_calls>>

\* gather resumes once every task is done; exceptions become None; the
\* chunk's frames that are not None are written and counted.
A_GatherWrite ==
    /\ pc = "a_gather"
    /\ AllFinished
    /\ LET gathered == Gather(task_val, finish_order)
           processed_frames == ExceptionsToNone(gathered)
       IN /\ out' = out \o NonNone(processed_frames)
          /\ replaced_count' = replaced_count + Len(NonNone(processed_frames))
    /\ ReportProgress(Min(batch_start + ChunkSize, total_frames),
                      batch_start + ChunkSize, "a_chunk", writer)
    /\ UNCHANGED <<envVars, unitVars, taskVars, parVars, processor, result, results_made, invoked,
                   dispatch_count, prev>>

\* The chunk loop is exhausted: the writer is released, replaced_count returned.
A_Return ==
    /\ pc = "a_chunk"
    /\ batch_start >= total_frames
    /\ writer' = "released"
    /\ pc' = "returned"
    /\ UNCHANGED <<envVars, unitVars, taskVars, parVars, processor, result, results_made, invoked, out,
                   replaced_count, batch_start, dispatch_count, prev, progress_calls>>

\* ------------------------------------------------------------------- Next
Next ==
    \/ \E p \in Processors : Execute(p)
    \/ DetectBook
    \/ LoadTrailer
    \/ ExecuteFinish
    \/ \E f \in 1..Len(task_state) : TaskStart(f)
    \/ \E f \in 1..Len(task_state) : TaskFinish(f)
    \/ ParallelStart
    \/ P_ExtractBatch
    \/ P_SubmitBatch
    \/ P_Collect
    \/ P_WriteBatch
    \/ P_Return
    \/ AsyncStart
    \/ A_SubmitChunk
    \/ A_GatherWrite
    \/ A_Return

Spec == Init /\ [][Next]_vars

\* process_frames alone, of either processor.
NextFrames ==
    \/ \E f \in 1..Len(task_state) : TaskStart(f)
    \/ \E f \in 1..Len(task_state) : TaskFinish(f)
    \/ ParallelStart
    \/ P_ExtractBatch
    \/ P_SubmitBatch
    \/ P_Collect
    \/ P_WriteBatch
    \/ P_Return
    \/ AsyncStart
    \/ A_SubmitChunk
    \/ A_GatherWrite
    \/ A_Return

SpecFrames == InitFrames /\ [][NextFrames]_vars

\* ParallelFrameProcessor.process_frames alone, called with no callback or
\* with one that returns, a trailer of one frame and the largest pool, every
\* worker task finishing and the sequencing thread running on.
InitParallel ==
    /\ InitFrames
    /\ processor = "parallel"
    /\ progress_callback # "fails"
    /\ trailer_len = 1
    /\ max_workers = MaxWorkers

NextParallel ==
    \/ \E f \in 1..Len(task_state) : TaskStart(f)
    \/ \E f \in 1..Len(task_state) : TaskFinish(f)
    \/ ParallelStart
    \/ P_ExtractBatch
    \/ P_SubmitBatch
    \/ P_Collect
    \/ P_WriteBatch
    \/ P_Return

\* The executor starts a queued task when a worker is free and a started
\* task finishes; the thread in process_frames takes its next step.
FairParallel ==
    /\ \A f \in 1..BatchLimit : WF_vars(TaskStart(f)) /\ WF_vars(TaskFinish(f))
    /\ WF_vars(ParallelStart \/ P_ExtractBatch \/ P_SubmitBatch \/ P_Collect
                  \/ P_WriteBatch \/ P_Return)

SpecParallel == InitParallel /\ [][NextParallel]_vars /\ FairParallel

\* The pipeline is not run.
PipelineUnused ==
    /\ video_opens = FALSE
    /\ total_frames = 0
    /\ frame_outcome = << >>
    /\ open_fails = {}
    /\ book_found = FALSE
    /\ trailer_len = 0
    /\ writer_opens = TRUE
    /\ processor = "none"
    /\ pc = "idle"
    /\ result = NoResult
    /\ invoked = FALSE
    /\ results_made = 0
    /\ writer = "none"
    /\ out = << >>
    /\ replaced_count = 0
    /\ batch_start = 0
    /\ task_arg = << >>
    /\ task_state = << >>
    /\ task_val = << >>
    /\ finish_order = << >>
    /\ batch_data = << >>
    /\ future_to_idx = << >>
    /\ results = << >>
    /\ ncollected = 0
    /\ dispatch_count = << >>
    /\ max_workers = MaxWorkers
    /\ progress_callback = "none"
    /\ progress_calls = << >>
    /\ prev = [p \in Processors |-> NoRun]

\* ------------------------------------------------- pose tracking of a frame
\* One frame is about to be composited by one of the processors; the feature
\* extractor, the matcher and the estimator answer in every possible way.
InitPose ==
    /\ pose_processor \in Processors
    /\ feature_frame \in FeatureResults
    /\ feature_book \in BookFeatureResults
    /\ n_matches \in 0..MaxMatches
    /\ matcher_raises \in BOOLEAN
    /\ find_homography \in FitResults
    /\ current_H = "unset"
    /\ wk_pc = << >>
    /\ wk_lock = 0
    /\ PipelineUnused
    /\ DetectUnused
    /\ VideoUnused

\* _process_single_frame_safe: current_H = self._compute_homography_safe(...)
PoseParallel ==
    /\ pose_processor = "parallel"
    /\ current_H = "unset"
    /\ current_H' = compute_homography_safe(feature_frame, feature_book, n_matches,
                                            matcher_raises, find_homography)
    /\ UNCHANGED <<pipelineVars, detectVars, videoVars, pose_processor, feature_frame,
                   feature_book, n_matches, matcher_raises, find_homography,
                   workerVars>>

\* _process_frame_by_index: current_H = self._compute_homography_for_frame(...)
PoseAsync ==
    /\ pose_processor = "async"
    /\ current_H = "unset"
    /\ current_H' = compute_homography_for_frame(feature_frame, feature_book,
                                                 n_matches, matcher_raises,
                                                 find_homography)
    /\ UNCHANGED <<pipelineVars, detectVars, videoVars, pose_processor, feature_frame,
                   feature_book, n_matches, matcher_raises, find_homography,
                   workerVars>>

NextPose ==
    \/ PoseParallel
    \/ PoseAsync

SpecPose == InitPose /\ [][NextPose]_vars

\* ------------------------------- worker tasks inside the pose computation
\* The tasks of one batch have been submitted to the pool of processor
\* pose_processor; feature_book has descriptors.
InitWorkers ==
    /\ pose_processor \in Processors
    /\ feature_frame = "raises"
    /\ feature_book = "descriptors"
    /\ n_matches = 0
    /\ matcher_raises = FALSE
    /\ find_homography = "none"
    /\ current_H = "unset"
    /\ \E n \in 1..MaxFrames : wk_pc = [t \in 1..n |-> "queued"]
    /\ wk_lock = 0
    /\ PipelineUnused
    /\ DetectUnused
    /\ VideoUnused

WorkerUnchanged ==
    UNCHANGED <<pipelineVars, detectVars, videoVars, pose_processor, feature_frame,
                feature_book, n_matches, matcher_raises, find_homography,
                current_H>>

\* Tasks a pool thread is executing.
Busy == {t \in 1..Len(wk_pc) : wk_pc[t] \notin {"queued", "done"}}

\* A pool thread takes task t and runs it up to the pose computation:
\* _compute_homography_safe first waits for self._lock,
\* _compute_homography_for_frame calls extract_features at once.
WorkerBegin(t) ==
    /\ wk_pc[t] = "queued"
    /\ Cardinality(Busy) < MaxWorkers
    /\ wk_pc' = [wk_pc EXCEPT ![t] = IF pose_processor = "parallel"
                                     THEN "lock" ELSE "extract"]
    /\ UNCHANGED wk_lock
    /\ WorkerUnchanged

\* ParallelFrameProcessor: `with self._lock:` is entered and
\* extract_features(frame) called.
WorkerAcquire(t) ==
    /\ wk_pc[t] = "lock"
    /\ wk_lock = 0
    /\ wk_lock' = t
    /\ wk_pc' = [wk_pc EXCEPT ![t] = "extract"]
    /\ WorkerUnchanged

\* extract_features returns or raises; the with block, where there is one,
\* is left.  With descriptors for the frame match_features is called, in
\* every other case the pose computation ends.
WorkerExtracted(t) ==
    /\ wk_pc[t] = "extract"
    /\ \E ff \in FeatureResults :
         wk_pc' = [wk_pc EXCEPT ![t] = IF ff = "descriptors"
                                       THEN "match" ELSE "done"]
    /\ wk_lock' = IF wk_lock = t THEN 0 ELSE wk_lock
    /\ WorkerUnchanged

\* match_features returns or raises, and the task runs to its end.
WorkerMatched(t) ==
    /\ wk_pc[t] = "match"
    /\ wk_pc' = [wk_pc EXCEPT ![t] = "done"]
    /\ UNCHANGED wk_lock
    /\ WorkerUnchanged

NextWorkers ==
    \/ \E t \in 1..Len(wk_pc) : WorkerBegin(t)
    \/ \E t \in 1..Len(wk_pc) : WorkerAcquire(t)
    \/ \E t \in 1..Len(wk_pc) : WorkerExtracted(t)
    \/ \E t \in 1..Len(wk_pc) : WorkerMatched(t)

SpecWorkers == InitWorkers /\ [][NextWorkers]_vars

\* ------------------------------------- BookDetectorInVideo.detect_best_book
\* A catalog entry as detection sees it: the confidence of
\* execute_single_comparison on each saved sample, and whether
\* _compute_homography_for_book finds a homography on the middle sample.
CatalogEntries(n) == [scores : [1..n -> 0..MaxScore], homography : BOOLEAN]

InitDetect ==
    /\ readable_samples \in SUBSET Samples
    /\ \E n \in 0..MaxBooks :
         catalog \in [1..n -> CatalogEntries(Cardinality(readable_samples))]
    /\ min_conf \in 0..MaxMinConf
    /\ det_pc = "start"
    /\ frame_data = << >>
    /\ book_index = 0
    /\ best = 0
    /\ best_weighted_score = 0
    /\ homographies_computed = 0
    /\ det_result = -1
    /\ CompareUnused
    /\ PipelineUnused
    /\ PoseUnused
    /\ VideoUnused

\* detect_best_book: the samples are read; with none readable it returns None.
ReadSamples ==
    /\ det_pc = "start"
    /\ frame_data' = Ascending(readable_samples)
    /\ IF readable_samples = {}
       THEN /\ det_pc' = "returned"
            /\ det_result' = 0
            /\ UNCHANGED <<book_index, best, best_weighted_score>>
       ELSE /\ det_pc' = "evaluate"
            /\ book_index' = 1
            /\ best' = 0
            /\ best_weighted_score' = 0
            /\ UNCHANGED det_result
    /\ UNCHANGED <<pipelineVars, poseVars, videoVars, compareVars, readable_samples, catalog, min_conf,
                   homographies_computed>>

\* _evaluate_all_books: one iteration of the loop over the catalog.
EvaluateBook ==
    /\ det_pc = "evaluate"
    /\ book_index <= Len(catalog)
    /\ LET book == catalog[book_index]
           weighted_score == calculate_book_weighted_score(book.scores)
       IN  IF weighted_score >= min_conf /\ weighted_score > best_weighted_score
           THEN /\ homographies_computed' = homographies_computed + 1
                /\ IF book.homography
                   THEN /\ best' = book_index
                        /\ best_weighted_score' = weighted_score
                   ELSE UNCHANGED <<best, best_weighted_score>>
           ELSE UNCHANGED <<best, best_weighted_score, homographies_computed>>
    /\ book_index' = book_index + 1
    /\ UNCHANGED <<pipelineVars, poseVars, videoVars, compareVars, readable_samples, catalog, min_conf,
                   det_pc, frame_data, det_result>>

\* _evaluate_all_books returns best once the catalog is exhausted.
DetectReturn ==
    /\ det_pc = "evaluate"
    /\ book_index > Len(catalog)
    /\ det_result' = best
    /\ det_pc' = "returned"
    /\ UNCHANGED <<pipelineVars, poseVars, videoVars, compareVars, readable_samples, catalog, min_conf,
                   frame_data, book_index, best, best_weighted_score,
                   homographies_computed>>

NextDetect ==
    \/ ReadSamples
    \/ EvaluateBook
    \/ DetectReturn

SpecDetect == InitDetect /\ [][NextDetect]_vars

\* ------------- FindMatchingBookMovieUseCase.execute_single_comparison
InitCompare ==
    /\ input_image \in {"image", "none"}
    /\ book_image \in {"image", "none"}
    /\ extract_input \in ExtractOutcomes
    /\ extract_book \in ExtractOutcomes
    /\ accepted \in 0..MaxMatches
    /\ match_error \in ErrorTexts \cup {""}
    /\ cmp_pc = "load"
    /\ cmp_result = NoComparison
    /\ readable_samples = {}
    /\ catalog = << >>
    /\ min_conf = 0
    /\ det_pc = "idle"
    /\ frame_data = << >>
    /\ book_index = 0
    /\ best = 0
    /\ best_weighted_score = 0
    /\ homographies_computed = 0
    /\ det_result = -1
    /\ PipelineUnused
    /\ PoseUnused
    /\ VideoUnused

CompareUnchanged ==
    UNCHANGED <<pipelineVars, poseVars, videoVars, readable_samples, catalog,
                min_conf, det_pc, frame_data, book_index, best,
                best_weighted_score, homographies_computed, det_result,
                input_image, book_image, extract_input, extract_book,
                accepted, match_error>>

\* The two images are loaded; a missing one raises FileNotFoundError, which
\* the handler turns into the error result.
CompareLoad ==
    /\ cmp_pc = "load"
    /\ IF input_image = "none"
       THEN /\ cmp_result' = ComparisonError("Cannot load input image")
            /\ cmp_pc' = "returned"
       ELSE IF book_image = "none"
       THEN /\ cmp_result' = ComparisonError("Cannot load book image")
            /\ cmp_pc' = "returned"
       ELSE /\ cmp_pc' = "extract"
            /\ UNCHANGED cmp_result
    /\ CompareUnchanged

\* The two extract_features statements, the input image first.
CompareExtract ==
    /\ cmp_pc = "extract"
    /\ IF ExtractError(extract_input) # ""
       THEN /\ cmp_result' = ComparisonError(ExtractError(extract_input))
            /\ cmp_pc' = "returned"
       ELSE IF ExtractError(extract_book) # ""
       THEN /\ cmp_result' = ComparisonError(ExtractError(extract_book))
            /\ cmp_pc' = "returned"
       ELSE /\ cmp_pc' = "match"
            /\ UNCHANGED cmp_result
    /\ CompareUnchanged

\* match_features and the construction of the result.
CompareMatch ==
    /\ cmp_pc = "match"
    /\ IF /\ match_error # ""
          /\ extract_input = "descriptors"
          /\ extract_book = "descriptors"
       THEN cmp_result' = ComparisonError(match_error)
       ELSE cmp_result' =
               ComparisonResult(match_features(extract_input, extract_book, accepted))
    /\ cmp_pc' = "returned"
    /\ CompareUnchanged

NextCompare ==
    \/ CompareLoad
    \/ CompareExtract
    \/ CompareMatch

SpecCompare == InitCompare /\ [][NextCompare]_vars

\* ------------------------- ProcessVideoUseCase.execute and extract_keyframes
otherVars == <<pipelineVars, poseVars, detectVars>>

\* The catalogs execute is run with: none, one or two books, whose pHashes
\* differ in every bit, so that a frame has no, one or two candidates.
\* _filter_candidates itself is examined over every catalog in SpecFilter.
VideoCatalogs == {<< >>, <<0>>, <<0, 2^HashBits - 1>>}

InitVideo ==
    /\ video_file = NoVideo
    /\ frame_skip \in 1..MaxStride
    /\ hist_thresh \in 0..MaxHist
    /\ book_hashes \in VideoCatalogs
    /\ phash_thresh \in 0..(HashBits - 1)
    /\ kf_video = << >>
    /\ kf_emitted = <<-1>>
    /\ VideoIdle
    /\ PipelineUnused
    /\ PoseUnused
    /\ DetectUnused

\* execute is called: the generator is created and, at its first next(), opens
\* the video; FileNotFoundError leaves execute when it cannot.
StartExecute ==
    /\ \E opens \in BOOLEAN : vpc' = IF opens THEN "next" ELSE "raised"
    /\ gen_idx' = 0
    /\ last_hist' = NoHist
    /\ key_idx' = -1
    /\ cur_pos' = -1
    /\ frame' = NoFrame
    /\ frame_hash' = -1
    /\ candidates' = << >>
    /\ best_match' = NoMatch
    /\ video_results' = << >>
    /\ extractor_calls' = 0
    /\ matcher_calls' = 0
    /\ UNCHANGED <<otherVars, keyframeVars, configVars, cacheVars>>

ExecuteVideo ==
    /\ vpc \in {"idle", "returned", "raised"}
    /\ StartExecute
    /\ UNCHANGED first_results

\* execute has returned and is called again on the same video; what the
\* first call returned is kept for comparison.
ExecuteAgain ==
    /\ vpc = "returned"
    /\ first_results = NoFirstRun
    /\ first_results' = video_results
    /\ StartExecute

\* extract_keyframes: one iteration of `while True` in which cap.read()
\* gives a frame.  A yield hands the frame to the loop of execute, whose
\* enumerate numbers it.  The loop variables of the previous keyframe are
\* dead once the generator is resumed.
ReadFrame ==
    /\ vpc = "next"
    /\ gen_idx < VideoLength
    /\ \E f \in FramesAt(gen_idx) :
         LET emit == Yields(gen_idx, last_hist, f.hist, frame_skip, hist_thresh)
         IN  /\ last_hist' = IF Sampled(gen_idx, frame_skip)
                             THEN LastHistAfter(emit, last_hist, f.hist)
                             ELSE last_hist
             /\ IF emit
                THEN /\ frame' = f
                     /\ cur_pos' = gen_idx
                     /\ key_idx' = key_idx + 1
                     /\ vpc' = "lookup"
                ELSE /\ frame' = NoFrame
                     /\ cur_pos' = -1
                     /\ UNCHANGED <<key_idx, vpc>>
    /\ gen_idx' = gen_idx + 1
    /\ frame_hash' = -1
    /\ candidates' = << >>
    /\ best_match' = NoMatch
    /\ extractor_calls' = 0
    /\ matcher_calls' = 0
    /\ UNCHANGED <<otherVars, keyframeVars, historyVars, configVars, cacheVars, video_results>>

\* extract_keyframes: cap.read() gives ret False, the generator ends and
\* execute returns results.
EndOfVideo ==
    /\ vpc = "next"
    /\ video_file # NoVideo => gen_idx = Len(video_file)
    /\ vpc' = "returned"
    /\ frame' = NoFrame
    /\ cur_pos' = -1
    /\ frame_hash' = -1
    /\ candidates' = << >>
    /\ best_match' = NoMatch
    /\ extractor_calls' = 0
    /\ matcher_calls' = 0
    /\ UNCHANGED <<otherVars, keyframeVars, historyVars, configVars, genVars, cacheVars,
                   key_idx, video_results>>

\* execute: `if meta_path.exists() and frame_path.exists()`: the cached
\* result is appended, else the frame goes on to the candidate filter.
CacheLookup ==
    /\ vpc = "lookup"
    /\ IF CacheHit(meta_files, frame_files, key_idx)
       THEN IF meta_files[key_idx].file = "record"
            THEN /\ video_results' =
                      Append(video_results, FromMeta(meta_files[key_idx]))
                 /\ vpc' = "next"
            ELSE \* json.loads raises JSONDecodeError, data[...] KeyError
                 /\ vpc' = "raised"
                 /\ UNCHANGED video_results
       ELSE /\ vpc' = "filter"
            /\ UNCHANGED video_results
    /\ UNCHANGED <<otherVars, keyframeVars, historyVars, configVars, genVars, cacheVars, key_idx, cur_pos,
                   frame, frame_hash, candidates, best_match, extractor_calls,
                   matcher_calls>>

\* execute: frame_hash = _compute_pHash(frame); candidates =
\* _filter_candidates(frame_hash); `if not candidates: continue`.
FilterCandidates ==
    /\ vpc = "filter"
    /\ frame_hash' = compute_pHash(frame)
    /\ candidates' = filter_candidates(compute_pHash(frame), book_hashes,
                                       phash_thresh)
    /\ vpc' = AfterFilter(candidates')
    /\ UNCHANGED <<otherVars, keyframeVars, historyVars, configVars, genVars, cacheVars, key_idx, cur_pos,
                   frame, best_match, video_results, extractor_calls,
                   matcher_calls>>

\* _find_best_match_with_overlay: features of the frame, then one extraction
\* and one match per candidate; the frame image is saved with the first new
\* best, an overlay with every new best that produces one.
FindBestMatch ==
    /\ vpc = "match"
    /\ LET C == {candidates[i] : i \in 1..Len(candidates)}
       IN  \E score \in [C -> 0..MaxScore], overlay \in [C -> BOOLEAN] :
             /\ \A b \in C : score[b] = 0 => ~overlay[b]
             /\ LET r == FindBestLoop(candidates, key_idx, score, overlay,
                            [best_score |-> 0, best_match |-> NoMatch,
                             overlays |-> {}])
                IN  /\ best_match' = r.best_match
                    /\ frame_files' = IF r.best_match # NoMatch
                                      THEN save_frame_if_not_exists(frame_files,
                                                                    key_idx)
                                      ELSE frame_files
                    /\ overlay_files' = overlay_files \cup r.overlays
                    /\ vpc' = IF r.best_match # NoMatch THEN "store" ELSE "next"
    /\ extractor_calls' = extractor_calls + 1 + Len(candidates)
    /\ matcher_calls' = matcher_calls + Len(candidates)
    /\ UNCHANGED <<otherVars, keyframeVars, historyVars, configVars, genVars, meta_files, key_idx, cur_pos,
                   frame, frame_hash, candidates, video_results>>

\* execute: `if best:` the metadata record is written.
StoreResult ==
    /\ vpc = "store"
    /\ meta_files' = [meta_files EXCEPT ![key_idx] = MetaOf(best_match)]
    /\ vpc' = "append"
    /\ UNCHANGED <<otherVars, keyframeVars, historyVars, configVars, genVars, frame_files, overlay_files,
                   key_idx, cur_pos, frame, frame_hash, candidates, best_match,
                   video_results, extractor_calls, matcher_calls>>

\* execute: results.append(best), and the loop asks for the next keyframe.
AppendResult ==
    /\ vpc = "append"
    /\ video_results' = Append(video_results, best_match)
    /\ vpc' = "next"
    /\ UNCHANGED <<otherVars, keyframeVars, historyVars, configVars, genVars, cacheVars,
                   key_idx, cur_pos, frame, frame_hash, candidates, best_match,
                   extractor_calls, matcher_calls>>

\* clear_cache: file.unlink() for every entry glob("*") yields, in the order
\* of the directory listing.  The entries are the metadata files, the frame
\* images and, once an overlay has been saved, the directory `overlay`, on
\* which unlink raises: the entries listed before it are gone, the others
\* stay, and the overlay images stay in any case.
ClearCache ==
    /\ vpc \in {"idle", "returned", "raised"}
    /\ IF overlay_files = {}
       THEN /\ meta_files' = [k \in Keys |-> NoMeta]
            /\ frame_files' = {}
       ELSE \E M \in SUBSET {k \in Keys : meta_files[k] # NoMeta},
               F \in SUBSET frame_files :
              /\ meta_files' = [k \in Keys |-> IF k \in M THEN NoMeta
                                              ELSE meta_files[k]]
              /\ frame_files' = frame_files \ F
    /\ UNCHANGED <<otherVars, keyframeVars, historyVars, configVars, genVars,
                   overlay_files, vpc, key_idx, cur_pos, frame, frame_hash,
                   candidates, best_match, video_results, extractor_calls,
                   matcher_calls>>

NextVideo ==
    \/ ExecuteVideo
    \/ ReadFrame
    \/ EndOfVideo
    \/ CacheLookup
    \/ FilterCandidates
    \/ FindBestMatch
    \/ StoreResult
    \/ AppendResult

SpecVideo == InitVideo /\ [][NextVideo]_vars

\* ------------------------------------------------------ _filter_candidates
\* A keyframe that missed the cache is about to be filtered against a catalog.
InitFilter ==
    /\ first_results = NoFirstRun
    /\ video_file = NoVideo
    /\ frame_skip = 1
    /\ hist_thresh = 0
    /\ \E n \in 0..MaxBooks : book_hashes \in [1..n -> Hashes]
    /\ phash_thresh \in 0..HashBits
    /\ kf_video = << >>
    /\ kf_emitted = <<-1>>
    /\ gen_idx = 1
    /\ last_hist = 0
    /\ \E h \in Hashes : frame = [hist |-> 0, phash |-> h]
    /\ vpc = "filter"
    /\ key_idx = 0
    /\ cur_pos = 0
    /\ frame_hash = -1
    /\ candidates = << >>
    /\ best_match = NoMatch
    /\ video_results = << >>
    /\ meta_files = [k \in Keys |-> NoMeta]
    /\ frame_files = {}
    /\ overlay_files = {}
    /\ extractor_calls = 0
    /\ matcher_calls = 0
    /\ PipelineUnused
    /\ PoseUnused
    /\ DetectUnused

NextFilter == FilterCandidates

SpecFilter == InitFilter /\ [][NextFilter]_vars

\* ------------------------------------------ FrameExtractor.extract_keyframes
\* A video, a stride and a change threshold are given to the selector.
InitKeyframes ==
    /\ video_file = NoVideo
    /\ \E n \in 0..MaxVideoLen : kf_video \in [1..n -> 0..MaxHist]
    /\ frame_skip \in 1..MaxStride
    /\ hist_thresh \in 0..MaxHist
    /\ kf_emitted = <<-1>>
    /\ book_hashes = << >>
    /\ phash_thresh = 0
    /\ VideoIdle
    /\ PipelineUnused
    /\ PoseUnused
    /\ DetectUnused

\* The generator is run to its end.
ExtractKeyframes ==
    /\ kf_emitted = <<-1>>
    /\ kf_emitted' = extract_keyframes(kf_video, frame_skip, hist_thresh)
    /\ UNCHANGED <<otherVars, kf_video, historyVars, configVars, genVars, cacheVars, vpc,
                   key_idx, cur_pos, frame, frame_hash, candidates, best_match,
                   video_results, extractor_calls, matcher_calls>>

NextKeyframes == ExtractKeyframes

SpecKeyframes == InitKeyframes /\ [][NextKeyframes]_vars

\* ------------------------------- the body of execute's loop for one keyframe
\* The metadata records an earlier run can have left under key k.
CachedRecords(k) ==
    {MetaOf(NewMatch(k, b, c, o)) :
        b \in 1..MaxBooks, c \in 1..MaxScore, o \in BOOLEAN}
    \cup {UnparseableMeta, IncompleteMeta}

\* The generator has just yielded a keyframe, which enumerate numbered k; the
\* cache directory holds, for k, a metadata record or none and a frame image
\* or none.
InitFrame ==
    /\ first_results = NoFirstRun
    /\ video_file = NoVideo
    /\ frame_skip = 1
    /\ hist_thresh = 0
    /\ book_hashes \in VideoCatalogs
    /\ phash_thresh \in 0..(HashBits - 1)
    /\ kf_video = << >>
    /\ kf_emitted = <<-1>>
    /\ \E k \in Keys :
         /\ key_idx = k
         /\ cur_pos = k
         /\ gen_idx = k + 1
         /\ \E m \in CachedRecords(k) \cup {NoMeta} :
              meta_files = [j \in Keys |-> IF j = k THEN m ELSE NoMeta]
         /\ frame_files \in SUBSET {k}
    /\ overlay_files = {}
    /\ last_hist = 0
    /\ \E h \in Hashes : frame = [hist |-> 0, phash |-> h]
    /\ vpc = "lookup"
    /\ frame_hash = -1
    /\ candidates = << >>
    /\ best_match = NoMatch
    /\ video_results = << >>
    /\ extractor_calls = 0
    /\ matcher_calls = 0
    /\ PipelineUnused
    /\ PoseUnused
    /\ DetectUnused

NextFrame ==
    \/ CacheLookup
    \/ FilterCandidates
    \/ FindBestMatch
    \/ StoreResult
    \/ AppendResult

SpecFrame == InitFrame /\ [][NextFrame]_vars

\* ---------------------------------------- execute twice on the same video
\* The pHashes of the frames of these videos: that of the first book, one
\* that differs from it in one bit, and that of the second book.
RerunHashes == {0, 1, 2^HashBits - 1}

\* The videos execute is run on twice: up to MaxVideoLen - 1 frames, the
\* histogram level alternating from frame to frame.
RerunVideos ==
    UNION {{[p \in 1..n |-> [hist |-> (p - 1) % 2, phash |-> hs[p]]] :
               hs \in [1..n -> RerunHashes]} : n \in 0..(MaxVideoLen - 1)}

\* The cache directory is empty and execute has been called on a video that
\* opens.  With hist_thresh = 0 every frame is a keyframe, with hist_thresh = 1
\* only the first one.
InitRerun ==
    /\ video_file \in RerunVideos
    /\ frame_skip = 1
    /\ hist_thresh \in {0, 1}
    /\ book_hashes \in VideoCatalogs
    /\ phash_thresh \in 0..(HashBits - 1)
    /\ kf_video = << >>
    /\ kf_emitted = <<-1>>
    /\ first_results = NoFirstRun
    /\ gen_idx = 0
    /\ last_hist = NoHist
    /\ vpc = "next"
    /\ key_idx = -1
    /\ cur_pos = -1
    /\ frame = NoFrame
    /\ frame_hash = -1
    /\ candidates = << >>
    /\ best_match = NoMatch
    /\ video_results = << >>
    /\ meta_files = [k \in Keys |-> NoMeta]
    /\ frame_files = {}
    /\ overlay_files = {}
    /\ extractor_calls = 0
    /\ matcher_calls = 0
    /\ PipelineUnused
    /\ PoseUnused
    /\ DetectUnused

NextRerun ==
    \/ ExecuteAgain
    \/ ReadFrame
    \/ EndOfVideo
    \/ CacheLookup
    \/ FilterCandidates
    \/ FindBestMatch
    \/ StoreResult
    \/ AppendResult

SpecRerun == InitRerun /\ [][NextRerun]_vars

\* ------------------------------------------- execute and clear_cache calls
\* A use case is built on an empty cache directory; execute and clear_cache
\* are then called in any order on one video.
InitCache ==
    /\ video_file \in RerunVideos
    /\ frame_skip = 1
    /\ hist_thresh = 0
    /\ book_hashes \in VideoCatalogs
    /\ phash_thresh \in 0..(HashBits - 1)
    /\ kf_video = << >>
    /\ kf_emitted = <<-1>>
    /\ VideoIdle
    /\ PipelineUnused
    /\ PoseUnused
    /\ DetectUnused

NextCache ==
    \/ ExecuteVideo
    \/ ClearCache
    \/ ReadFrame
    \/ EndOfVideo
    \/ CacheLookup
    \/ FilterCandidates
    \/ FindBestMatch
    \/ StoreResult
    \/ AppendResult

SpecCache == InitCache /\ [][NextCache]_vars

\* ------------------------------------------------------- claim vocabulary
\* The batch_start of the batch of ParallelFrameProcessor that holds frame i.
BatchStartOf(i) == (i \div BatchSize(total_frames)) * BatchSize(total_frames)

Frames == 0..(total_frames - 1)
TrackFails == {i \in Frames : frame_outcome[i] = "trackfail"}
\* Every frame of the video can be read, whenever it is asked for.
AllReadable == open_fails = {} /\ \A i \in Frames : frame_outcome[i] # "readfail"
NoneRaises == \A i \in Frames : frame_outcome[i] # "raise"
OtherProcessor == IF processor = "parallel" THEN "async" ELSE "parallel"
ParallelReturned == processor = "parallel" /\ invoked /\ pc \in {"returned", "done"}
AsyncReturned == processor = "async" /\ invoked /\ pc \in {"returned", "done"}
Succeeded == pc = "done" /\ result.success

\* C1: when ParallelFrameProcessor.process_frames returns for a video of at
\* least one frame, the number of frames written equals total_frames, whatever
\* the reads, the tracking, the compositing and the batch opens did.
C1_ParallelFrameCount ==
    (ParallelReturned /\ total_frames >= 1) => Len(out) = total_frames

\* C1 witness: a returned parallel run in which one batch could not be opened
\* and another held an unreadable frame and a frame whose compositing raised.
C1_Witness ==
    /\ ParallelReturned
    /\ open_fails # {}
    /\ \E i, j \in Frames :
         /\ frame_outcome[i] = "readfail" /\ BatchStartOf(i) \notin open_fails
         /\ frame_outcome[j] = "raise" /\ BatchStartOf(j) \notin open_fails
    /\ Len(out) = total_frames

\* C2: when AsyncFrameProcessor.process_frames returns for a video of at least
\* one frame, the number of frames written equals total_frames; a failed frame
\* is written as a filler, never dropped.
C2_AsyncFrameCount ==
    (AsyncReturned /\ total_frames >= 1) => Len(out) = total_frames

\* The frame ParallelFrameProcessor computes for input frame i.
ParallelFrameFor(i) ==
    IF BatchStartOf(i) \in open_fails \/ frame_outcome[i] = "readfail"
    THEN Blank
    ELSE ProcessSingleFrameSafe(i)

\* C3: ParallelFrameProcessor: whatever the completion order of the tasks, the
\* frame at output position i (0-based) is the result computed for input
\* frame i.
C3_ParallelOrder ==
    processor = "parallel" =>
        \A p \in 1..Len(out) : out[p] = ParallelFrameFor(p - 1)

\* C3 witness: a batch of two tasks that completed in the reverse of their
\* submission order has been written.
C3_Witness ==
    /\ processor = "parallel"
    /\ pc = "p_extract"
    /\ finish_order = <<2, 1>>
    /\ Len(out) >= 2
    /\ out[Len(out)].kind = "composited"
    /\ out[Len(out) - 1].kind = "composited"

\* C4: AsyncFrameProcessor: whatever the completion order of the tasks, the
\* input frame indices of the written frames are strictly increasing, within a
\* chunk and across chunks.
C4_AsyncIncreasing ==
    processor = "async" =>
        \A p, q \in 1..Len(out) : p < q => out[p].src < out[q].src

\* C4 witness: two chunks have been written, the tasks of the first full chunk
\* and of the last one having completed; the last chunk's tasks completed in
\* reverse order.
C4_Witness ==
    /\ processor = "async"
    /\ pc = "a_chunk"
    /\ Len(finish_order) >= 2
    /\ finish_order[1] > finish_order[2]
    /\ Len(out) >= 2
    /\ out[Len(out)].src = out[Len(out) - 1].src + 1

\* C5: a run of a frame processor writes the same frames as an earlier run of
\* the same processor on the same input, whatever the completion orders, and
\* the frame at output position i depends on input frame i only: it is blank
\* or made from input frame i.
C5_Deterministic ==
    Succeeded =>
        /\ prev[processor].ran => out = prev[processor].out
        /\ \A p \in 1..Len(out) : out[p].src \in {p - 1, -1}

\* C6: for the same readable-or-not, tracking and compositing outcomes the two
\* processors write the same number of frames, with the same input frame index
\* and kind at every position, and return the same replaced count.
C6_Equivalent ==
    (Succeeded /\ open_fails = {} /\ prev[OtherProcessor].ran) =>
        LET other == prev[OtherProcessor]
        IN /\ Len(out) = Len(other.out)
           /\ \A p \in 1..Min(Len(out), Len(other.out)) :
                /\ out[p].src = other.out[p].src
                /\ out[p].kind = other.out[p].kind
           /\ result.replaced_frames_count = other.replaced

\* C7: ParallelFrameProcessor: in a batch that could be opened, a frame whose
\* read failed is never dispatched and is written as a blank frame at its own
\* position, while every readable frame of that batch, and of every later
\* batch, is dispatched once, processed and written at its own position.
C7_ReadFailureIsolated ==
    ParallelReturned =>
        /\ Len(out) = total_frames
        /\ \A i \in Frames :
             BatchStartOf(i) \notin open_fails =>
                IF frame_outcome[i] = "readfail"
                THEN out[i + 1] = Blank /\ dispatch_count[i] = 0
                ELSE /\ out[i + 1] = ProcessSingleFrameSafe(i)
                     /\ out[i + 1].src = i
                     /\ dispatch_count[i] = 1

\* C7 witness: the first frame of a three-frame video could not be read, the
\* second frame of the same batch and the frame of the next batch were
\* composited.
C7_Witness ==
    /\ ParallelReturned
    /\ total_frames = 3
    /\ open_fails = {}
    /\ frame_outcome[0] = "readfail"
    /\ out[1] = Blank
    /\ out[2].kind = "composited" /\ out[2].src = 1
    /\ out[3].kind = "composited" /\ out[3].src = 2

C9_CountsBounded ==
    Succeeded =>
        /\ 0 <= result.replaced_frames_count
        /\ result.replaced_frames_count <= result.total_frames_processed
        /\ result.total_frames_processed = total_frames

\* C9 witness: a successful run that replaced some but not all frames.
C9_Witness ==
    /\ Succeeded
    /\ 0 < result.replaced_frames_count
    /\ result.replaced_frames_count < result.total_frames_processed

\* C10: when the video opens and no book is detected, the frame processor is
\* never invoked, no writer is created, and execute ends with success=false,
\* replaced_frames_count=0, total_frames_processed=0 and a non-empty message.
C10_NoMatch ==
    (video_opens /\ ~book_found) =>
        /\ ~invoked
        /\ writer = "none"
        /\ out = << >>
        /\ pc \in {"idle", "detect", "done"}
        /\ pc = "done" =>
             /\ result.made
             /\ result.success = FALSE
             /\ result.replaced_frames_count = 0
             /\ result.total_frames_processed = 0
             /\ result.error_message # ""

\* C10 witness: execute has ended on a video of MaxFrames frames in which no
\* book was detected.
C10_Witness ==
    /\ pc = "done"
    /\ video_opens /\ ~book_found
    /\ total_frames = MaxFrames
    /\ result.error_message = "No book detected"

\* Supporting fact for the comparison of runs: two successful runs of the same
\* processor on the same input write the same frames and return the same
\* count, whatever the completion orders were.
SameProcessorRunsAgree ==
    Succeeded =>
        (prev[processor].ran =>
            /\ out = prev[processor].out
            /\ result.replaced_frames_count = prev[processor].replaced)

\* Supporting fact for the comparison of processors: when every frame is read
\* and no compositing raises, the two processors write the same frames and
\* return the same count.
ProcessorsAgreeWithoutFailures ==
    (Succeeded /\ AllReadable /\ NoneRaises /\ prev[OtherProcessor].ran) =>
        /\ out = prev[OtherProcessor].out
        /\ result.replaced_frames_count = prev[OtherProcessor].replaced

\* ---------------------------------------------------------------------------
\* Results of execute, failures of the writer and of single frames

ProcessFramesReturned == ParallelReturned \/ AsyncReturned

\* Frame i was read by the processor of this run.
WasRead(i) ==
    /\ frame_outcome[i] # "readfail"
    /\ processor = "parallel" => BatchStartOf(i) \notin open_fails

\* The number of output positions that hold frame f.
Occurrences(f) == Cardinality({p \in 1..Len(out) : out[p] = f})

\* C11: every run of execute, however it ends, has constructed exactly one
\* VideoReplacementResult: an error sentinel without frame statistics and
\* output path on a failure, a result with success=true and no error message
\* otherwise.
C11_OneResultPerRun ==
    pc \in {"done", "raised"} =>
        /\ results_made = 1
        /\ result.made
        /\ IF result.success
           THEN result.error_message = ""
           ELSE /\ result.error_message # ""
                /\ result.replaced_frames_count = 0
                /\ result.total_frames_processed = 0
                /\ result.output_video_path = ""

\* Supporting fact: a run of execute that returns has constructed exactly one
\* result, of the shape its path prescribes.
ReturnedRunHasOneResult ==
    pc = "done" =>
        /\ results_made = 1
        /\ result.made
        /\ result.success <=> (video_opens /\ book_found /\ trailer_len > 0)
        /\ IF result.success
           THEN result.error_message = ""
           ELSE /\ result.error_message # ""
                /\ result.replaced_frames_count = 0
                /\ result.total_frames_processed = 0
                /\ result.output_video_path = ""

\* C12: a run whose video writer could not be opened never ends with a
\* success result.
C12_WriterFailureIsFatal ==
    (pc = "done" /\ invoked /\ ~writer_opens) => ~result.success

\* C13: an exception in the work on one frame never leaves process_frames, and
\* every other frame that was read and whose work does not raise, in the same
\* batch or a later one, is dispatched once and written once, composited.
C13_FrameExceptionContained ==
    /\ pc = "raised" => total_frames = 0
    /\ ProcessFramesReturned =>
         \A j \in Frames :
            (WasRead(j) /\ frame_outcome[j] # "raise") =>
                /\ dispatch_count[j] = 1
                /\ Occurrences(Composite(j, ComputeHomographyForFrame(j),
                                         Min(j, trailer_len - 1))) = 1

\* C13 witness: the async processor has returned from a three-frame video
\* whose first frame raised during compositing; the second frame of that chunk
\* and the frame of the next chunk were written.
C13_Witness ==
    /\ AsyncReturned
    /\ total_frames = 3
    /\ frame_outcome[0] = "raise"
    /\ Len(out) = 2
    /\ out[1].kind = "composited" /\ out[1].src = 1
    /\ out[2].kind = "composited" /\ out[2].src = 2

\* C14: when the warp or blend of a frame that was read fails, the frame
\* written at that frame's output position is the unmodified input frame.
C14_WarpFailurePassesThrough ==
    ProcessFramesReturned =>
        \A i \in Frames :
            (WasRead(i) /\ frame_outcome[i] = "raise") =>
                /\ Len(out) >= i + 1
                /\ out[i + 1] = Raw(i)

\* Supporting fact: the parallel processor does pass such a frame through.
ParallelWarpFailurePassesThrough ==
    ParallelReturned =>
        \A i \in Frames :
            (WasRead(i) /\ frame_outcome[i] = "raise") => out[i + 1] = Raw(i)

\* ---------------------------------------------------------------------------
\* Pose fallback (under SpecPose)

\* C15: in both processors the homography used for a frame is the per-frame
\* estimate exactly when the frame and the reference both have descriptors,
\* the matcher returns at least 4 correspondences and the estimator returns a
\* matrix, and nothing raises; in every other case it is the base homography.
\* It is never absent and no exception leaves the function.
C15_PoseFallback ==
    current_H # "unset" =>
        /\ current_H \in {"tracked", "base"}
        /\ current_H = "tracked" <=>
              /\ feature_frame = "descriptors"
              /\ feature_book = "descriptors"
              /\ ~matcher_raises
              /\ n_matches >= 4
              /\ find_homography = "matrix"

\* C15 witness: the async processor fell back to the base homography for a
\* frame whose fit raised although descriptors and correspondences sufficed.
C15_Witness ==
    /\ pose_processor = "async"
    /\ feature_frame = "descriptors"
    /\ feature_book = "descriptors"
    /\ ~matcher_raises
    /\ n_matches >= 4
    /\ find_homography = "raises"
    /\ current_H = "base"

\* Supporting fact: with exactly 4 correspondences the estimate is used, with
\* 3 it is not.
PoseThresholdIsFour ==
    (/\ current_H # "unset"
     /\ feature_frame = "descriptors" /\ feature_book = "descriptors"
     /\ ~matcher_raises /\ find_homography = "matrix")
    => (current_H = "tracked" <=> n_matches > 3)

\* ---------------------------------------------------------------------------
\* Book identification (under SpecDetect)

\* The weighted average of catalog entry b over the three samples, in sixths.
WeightedAverage(b) ==
    catalog[b].scores[1] + 2 * catalog[b].scores[2] + 3 * catalog[b].scores[3]

\* Entry b reaches the minimum confidence and has a valid homography.
Qualifies(b) == WeightedAverage(b) >= min_conf /\ catalog[b].homography

\* The first entry, in catalog order, with the highest weighted average in Q.
FirstBest(Q) ==
    CHOOSE b \in Q :
        \A c \in Q : \/ WeightedAverage(b) > WeightedAverage(c)
                     \/ WeightedAverage(b) = WeightedAverage(c) /\ b <= c

\* C16: with all three samples readable detect_best_book returns the entry
\* with the highest weighted average among the entries that reach min_conf and
\* have a valid homography on the middle sample, the first of them in catalog
\* order on a tie, and no match when no entry qualifies.
C16_BestQualifiedEntry ==
    (det_pc = "returned" /\ readable_samples = Samples) =>
        LET Q == {b \in 1..Len(catalog) : Qualifies(b)}
        IN  IF Q = {} THEN det_result = 0 ELSE det_result = FirstBest(Q)

\* Supporting fact: the same holds among the entries whose weighted average
\* is greater than 0 as well.
BestPositiveQualifiedEntry ==
    (det_pc = "returned" /\ readable_samples = Samples) =>
        LET Q == {b \in 1..Len(catalog) : Qualifies(b) /\ WeightedAverage(b) > 0}
        IN  IF Q = {} THEN det_result = 0 ELSE det_result = FirstBest(Q)

\* Supporting fact: with min_conf > 0 the statement of C16 holds.
BestQualifiedEntryAbovePositiveMinimum ==
    (det_pc = "returned" /\ readable_samples = Samples /\ min_conf > 0) =>
        LET Q == {b \in 1..Len(catalog) : Qualifies(b)}
        IN  IF Q = {} THEN det_result = 0 ELSE det_result = FirstBest(Q)

\* ---------------------------------------------------------------------------
\* Keyframe selection (under SpecKeyframes)

Positions == 0..(Len(kf_video) - 1)
HistAt(p) == kf_video[p + 1]
Emitted == {kf_emitted[i] : i \in 1..Len(kf_emitted)}
SampledPositions == {p \in Positions : p % frame_skip = 0}
\* The last position before p whose frame was emitted.
LastEmittedBefore(p) ==
    CHOOSE q \in Emitted : q < p /\ \A r \in Emitted : r < p => r <= q

\* C17: only positions that are multiples of the stride are sampled; the first
\* sampled frame is always emitted; a later sampled frame is emitted exactly
\* when its histogram distance to the last emitted frame is strictly greater
\* than the threshold; a video whose sampled frames are all within the
\* threshold of the first sample emits exactly one frame.
C17_KeyframeSelection ==
    kf_emitted # <<-1>> =>
        /\ Emitted \subseteq SampledPositions
        /\ \A i, j \in 1..Len(kf_emitted) : i < j => kf_emitted[i] < kf_emitted[j]
        /\ kf_video # << >> => 0 \in Emitted
        /\ \A p \in SampledPositions :
              p > 0 =>
                (p \in Emitted <=>
                   compareHist(HistAt(LastEmittedBefore(p)), HistAt(p)) > hist_thresh)
        /\ (/\ kf_video # << >>
            /\ \A p \in SampledPositions :
                  compareHist(HistAt(0), HistAt(p)) <= hist_thresh)
           => kf_emitted = <<0>>

\* C17 witness: with stride 1 and threshold 1 the frames of levels 0, 1, 2
\* give the keyframes 0 and 2: frame 2 is within the threshold of the last
\* sampled frame but not of the last emitted one.
C17_Witness ==
    /\ kf_video = <<0, 1, 2>>
    /\ frame_skip = 1
    /\ hist_thresh = 1
    /\ kf_emitted = <<0, 2>>

\* ---------------------------------------------------------------------------
\* Cache keys (under SpecVideo)

\* execute is handling a keyframe.
HandlingKeyframe == vpc \in {"lookup", "filter", "match", "store", "append"}

\* C18: the frame index under which a keyframe is looked up and stored in the
\* cache is the position of the frame in the source video.
C18_KeyIsSourcePosition == HandlingKeyframe => key_idx = cur_pos

\* Supporting fact: the key is the number of keyframes emitted before the
\* frame, which never exceeds its position.
KeyCountsEmittedFrames ==
    HandlingKeyframe => (key_idx >= 0 /\ key_idx <= cur_pos /\ cur_pos % frame_skip = 0)

\* ---------------------------------------------------------------------------
\* Candidate filter (under SpecFilter)

Bit(x, i) == (x \div (2^i)) % 2
Hamming(a, b) == Cardinality({i \in 0..(HashBits - 1) : Bit(a, i) # Bit(b, i)})
CandidateSet == {candidates[i] : i \in 1..Len(candidates)}

\* C19: _filter_candidates returns exactly the catalog names whose signature
\* is within Hamming distance phash_thresh of the query signature; an entry
\* whose signature equals the query's is included for every threshold >= 0.
C19_CandidatesWithinThreshold ==
    frame_hash # -1 =>
        /\ frame_hash = frame.phash
        /\ CandidateSet = {b \in 1..Len(book_hashes) :
                              Hamming(frame_hash, book_hashes[b]) <= phash_thresh}
        /\ \A b \in 1..Len(book_hashes) :
              book_hashes[b] = frame_hash => b \in CandidateSet

\* C19 witness: with threshold 1, of two catalog entries the one at distance
\* 1 is returned and the one at distance 2 is not.
C19_Witness ==
    /\ frame_hash # -1
    /\ phash_thresh = 1
    /\ Len(book_hashes) = 2
    /\ Hamming(frame_hash, book_hashes[1]) = 2
    /\ Hamming(frame_hash, book_hashes[2]) = 1
    /\ candidates = <<2>>

\* ---------------------------------------------------------------------------
\* A keyframe without candidates (under SpecFrame)

\* No catalog entry is within phash_thresh of frame f.
NoCandidate(f) ==
    \A b \in 1..Len(book_hashes) : Hamming(f.phash, book_hashes[b]) > phash_thresh

\* C20: for a keyframe that missed the cache and has no candidate, the step
\* that filters it goes straight on to the next keyframe: no result is
\* appended, no cache file is written, and neither the extractor nor the
\* matcher has been called for it.
C20_EmptyCandidatesSkip ==
    /\ [][(vpc = "filter" /\ NoCandidate(frame)) =>
             /\ vpc' = "next"
             /\ UNCHANGED <<video_results, meta_files, frame_files, overlay_files,
                            extractor_calls, matcher_calls, key_idx>>]_vars
    /\ []((frame_hash # -1 /\ NoCandidate(frame)) =>
             /\ vpc = "next"
             /\ extractor_calls = 0
             /\ matcher_calls = 0
             /\ best_match = NoMatch)

\* C20 witness: a keyframe was skipped although the catalog is not empty and
\* a record without its frame image lay in the cache for its key.
C20_Witness ==
    /\ vpc = "next"
    /\ frame_hash # -1
    /\ candidates = << >>
    /\ book_hashes # << >>
    /\ meta_files[key_idx] # NoMeta
    /\ key_idx \notin frame_files
    /\ video_results = << >>

\* ---------------------------------------------------------------------------
\* Cache idempotence (under SpecRerun)

\* execute is running, or has run, for the second time.
SecondRun == first_results # NoFirstRun

\* The fields of a MatchResult other than the match list.
Summary(r) ==
    [source_name |-> r.source_name, target_name |-> r.target_name,
     confidence_score |-> r.confidence_score,
     good_matches_count |-> r.good_matches_count,
     target_image_path |-> r.target_image_path,
     source_frame_path |-> r.source_frame_path,
     overlay_image_path |-> r.overlay_image_path]

\* The number of keyframes of the video.
NumKeyframes ==
    Len(extract_keyframes([p \in 1..Len(video_file) |-> video_file[p].hist],
                          frame_skip, hist_thresh))

\* The first run, which started on an empty cache, computed and cached a
\* result for every keyframe.
FirstRunCachedAll == SecondRun /\ Len(first_results) = NumKeyframes

\* C21: when the first execute wrote a cache entry for every keyframe, the
\* second execute on the same video never calls the extractor or the matcher
\* and returns, keyframe by keyframe, results whose source name, target name,
\* confidence score, good-match count and image paths equal those of the
\* first run.
C21_CacheIdempotence ==
    FirstRunCachedAll =>
        /\ extractor_calls = 0
        /\ matcher_calls = 0
        /\ vpc \notin {"filter", "match", "store", "append"}
        /\ vpc = "returned" =>
              /\ Len(video_results) = Len(first_results)
              /\ \A i \in 1..Len(first_results) :
                    Summary(video_results[i]) = Summary(first_results[i])

\* C21 witness: a second run has returned the two results of the first run,
\* one of them with an overlay, from the cache; the cached results differ
\* from the computed ones in the match list only.
C21_Witness ==
    /\ FirstRunCachedAll
    /\ vpc = "returned"
    /\ Len(first_results) = 2
    /\ \E i \in 1..2 : first_results[i].overlay_image_path # 0
    /\ \E i \in 1..2 : first_results[i].overlay_image_path = 0
    /\ video_results # first_results

\* ---------------------------------------------------------------------------
\* The cache directory (under SpecCache)

\* C22: after any sequence of execute and clear_cache calls, every metadata
\* record in the cache directory has its frame image there as well.
C22_MetaImpliesFrame ==
    \A k \in Keys : meta_files[k] # NoMeta => k \in frame_files

\* Supporting fact: no step of execute breaks this; only clear_cache does.
ExecuteKeepsMetaWithFrame ==
    [][(C22_MetaImpliesFrame /\ ~ClearCache) => C22_MetaImpliesFrame']_vars

\* C25: a call of clear_cache leaves no metadata record in the cache
\* directory.
C25_ClearCacheRemovesRecords ==
    [][ClearCache => \A k \in Keys : meta_files'[k] = NoMeta]_vars

\* Supporting fact: while no overlay has been saved, clear_cache empties the
\* cache directory.
ClearCacheWithoutOverlays ==
    [][(ClearCache /\ overlay_files = {}) =>
          (frame_files' = {} /\ \A k \in Keys : meta_files'[k] = NoMeta)]_vars

\* ---------------------------------------------------------------------------
\* Damaged cache entries (under SpecFrame)

\* C23: a keyframe whose metadata record exists while its frame image is
\* missing is a cache miss: the lookup reads nothing from the record, appends
\* nothing and hands the keyframe to the candidate filter, after which its
\* identification is computed as for any miss.
C23_MetaWithoutFrameIsMiss ==
    /\ [][(vpc = "lookup" /\ meta_files[key_idx] # NoMeta
              /\ key_idx \notin frame_files) =>
             (vpc' = "filter" /\ UNCHANGED <<video_results, cacheVars>>)]_vars
    /\ []((meta_files[key_idx].file \in {"unparseable", "incomplete"}
              /\ key_idx \notin frame_files) =>
             (vpc # "raised" /\ video_results = << >>))

\* C23 witness: a keyframe whose record lay in the cache without its frame
\* image has been identified anew, with a result that differs from the record,
\* which is about to be overwritten.
C23_Witness ==
    /\ vpc = "store"
    /\ meta_files[key_idx].file = "record"
    /\ meta_files[key_idx] # MetaOf(best_match)
    /\ extractor_calls > 0
    /\ video_results = << >>

\* C24: a metadata record that cannot be parsed, or lacks a required field,
\* and whose frame image exists is treated as a cache miss; execute never
\* fails on it.
C24_CorruptMetaIsMiss ==
    (meta_files[key_idx].file \in {"unparseable", "incomplete"}
        /\ key_idx \in frame_files) => vpc # "raised"

\* ---------------------------------------------------------------------------
\* Write-through ordering (under SpecFrame)

\* C26: when the metadata record of a computed result is written, the frame
\* image, and the overlay image the result names, are already in the cache
\* and the result is not yet in the returned list; when the result is
\* appended, its metadata record is already written.
C26_WriteThroughOrder ==
    /\ [][meta_files' # meta_files =>
             /\ key_idx \in frame_files
             /\ best_match.overlay_image_path # 0 =>
                   <<key_idx, best_match.overlay_image_path>> \in overlay_files
             /\ meta_files'[key_idx] = MetaOf(best_match)
             /\ video_results' = video_results
             /\ best_match \notin {video_results[i] : i \in 1..Len(video_results)}
          ]_vars
    /\ [][(vpc = "append" /\ video_results' # video_results) =>
             /\ video_results' = Append(video_results, best_match)
             /\ meta_files[key_idx] = MetaOf(best_match)
             /\ key_idx \in frame_files
             /\ UNCHANGED cacheVars
          ]_vars

\* C26 witness: the record of a result with an overlay has been written, the
\* result has not been appended yet, and both images are in the cache.
C26_Witness ==
    /\ vpc = "append"
    /\ video_results = << >>
    /\ best_match.overlay_image_path # 0
    /\ meta_files[key_idx] = MetaOf(best_match)
    /\ key_idx \in frame_files
    /\ <<key_idx, best_match.overlay_image_path>> \in overlay_files

\* ---------------------------------------------------------------------------
\* Shared extractor and matcher (under SpecWorkers)

\* Tasks inside a call of the shared extractor, and of the shared matcher.
InExtractor == {t \in 1..Len(wk_pc) : wk_pc[t] = "extract"}
InMatcher == {t \in 1..Len(wk_pc) : wk_pc[t] = "match"}

\* C27: no two worker tasks are inside extract_features of the shared
\* extractor at the same time, and no two are inside match_features of the
\* shared matcher at the same time.
C27_SharedInstancesExclusive ==
    /\ Cardinality(InExtractor) <= 1
    /\ Cardinality(InMatcher) <= 1

\* Supporting facts: the lock of ParallelFrameProcessor does serialise the
\* extractor calls, and the pool never runs more than MaxWorkers tasks.
ParallelExtractorExclusive ==
    pose_processor = "parallel" => Cardinality(InExtractor) <= 1
PoolIsBounded == Cardinality(Busy) <= MaxWorkers

\* The two parts of C27 that fail: the matcher of ParallelFrameProcessor and
\* the extractor of AsyncFrameProcessor are entered without a lock.
ParallelMatcherExclusive ==
    pose_processor = "parallel" => Cardinality(InMatcher) <= 1
AsyncExtractorExclusive ==
    pose_processor = "async" => Cardinality(InExtractor) <= 1

\* ---------------------------------------------------------------------------
\* Exit paths and progress reports of process_frames (under SpecFrames)

\* process_frames has been left: it returned or an exception left it.
ProcessFramesLeft == invoked /\ pc \in {"returned", "raised"}

\* C28: on every exit path of process_frames, of either processor, the
\* writer it created has been released, also when an exception leaves it.
C28_WriterReleasedOnExit ==
    ProcessFramesLeft => writer = "released"

\* Supporting facts: ParallelFrameProcessor releases the writer on every exit
\* path, AsyncFrameProcessor on the path that returns.
ParallelReleasesOnExit ==
    (ProcessFramesLeft /\ processor = "parallel") => writer = "released"
AsyncReleasesOnReturn ==
    (invoked /\ pc = "returned" /\ processor = "async") => writer = "released"

\* The size of the batches (chunks) of the processor of this run, and the
\* processed counts a report after every batch would give, in order.
LoopBatchSize ==
    IF processor = "parallel" THEN BatchSize(total_frames) ELSE ChunkSize
NumBatches ==
    IF total_frames = 0 THEN 0
    ELSE (total_frames + LoopBatchSize - 1) \div LoopBatchSize
BatchEnds ==
    [k \in 1..NumBatches |-> Min(k * LoopBatchSize, total_frames)]

\* C29: when process_frames returns and a progress callback was supplied,
\* the callback has been called exactly once for every batch, the batches
\* whose frames could not be extracted included, with strictly increasing
\* processed counts, the last of them total_frames.
C29_ProgressAfterEveryBatch ==
    (ProcessFramesReturned /\ progress_callback # "none") =>
        /\ Len(progress_calls) = NumBatches
        /\ \A k \in 1..(Len(progress_calls) - 1) :
              progress_calls[k] < progress_calls[k + 1]
        /\ total_frames > 0 =>
              /\ progress_calls # << >>
              /\ progress_calls[Len(progress_calls)] = total_frames

\* Supporting facts.  AsyncFrameProcessor reports every chunk; the reports
\* of ParallelFrameProcessor are those of the batches it could extract, in
\* ascending order, and none is made without a callback.
AsyncReportsEveryChunk ==
    (AsyncReturned /\ progress_callback # "none") => progress_calls = BatchEnds
ParallelReportsExtractedBatches ==
    (ParallelReturned /\ progress_callback # "none") =>
        /\ Len(progress_calls) =
              Cardinality(BatchStarts(total_frames) \ open_fails)
        /\ \A k \in 1..Len(progress_calls) :
              /\ \E b \in 1..NumBatches :
                    /\ progress_calls[k] = BatchEnds[b]
                    /\ (b - 1) * LoopBatchSize \notin open_fails
              /\ k > 1 => progress_calls[k - 1] < progress_calls[k]
NoCallbackNoReport ==
    progress_callback = "none" => progress_calls = << >>

\* ---------------------------------------------------------------------------
\* The lifecycle of a frame in ParallelFrameProcessor (under SpecParallel)

\* Frame i has been written to the output.
Written(i) == Len(out) > i

\* Frame i of the batch being collected is Completed: its result slot is
\* filled, and if it was read, the one task it was dispatched to has finished.
Completed(i) ==
    /\ pc = "p_collect"
    /\ i \in batch_start..(batch_start + Len(results) - 1)
    /\ results[i - batch_start + 1] # None
    /\ frame_outcome[i] # "readfail" =>
          /\ dispatch_count[i] = 1
          /\ \E f \in 1..Len(task_state) :
                task_arg[f] = i /\ task_state[f] = "finished"

\* Frame i belongs to the batch about to be extracted, which cannot be read:
\* the failed read completes all its frames at once.
Unextractable(i) ==
    /\ pc = "p_extract"
    /\ BatchStartOf(i) = batch_start
    /\ batch_start \in open_fails

Unfinished == {f \in 1..Len(task_state) : task_state[f] # "finished"}

\* The number of frames the write loops have written once the batches below
\* index b are done: every index for ParallelFrameProcessor, the indices
\* whose task returned a frame for AsyncFrameProcessor.
WrittenBefore(b) ==
    IF processor = "parallel" THEN Min(b, total_frames)
    ELSE Cardinality({i \in 0..(Min(b, total_frames) - 1) :
                         ProcessFrameByIndex(i) \notin {None, Exc}})

\* C31: in both processors a frame is written only in a step of the thread
\* running process_frames taken while no task is queued or running, so all
\* tasks of a batch have finished before its first frame is written; and
\* tasks are dispatched only when every frame of the batches before theirs
\* has been written and every earlier task has finished.
C31_WritesWhileNoTaskRuns ==
    /\ [][out' # out =>
             /\ Unfinished = {}
             /\ pc \in {"p_extract", "p_collect", "a_gather"}
             /\ UNCHANGED <<task_state, task_arg, dispatch_count>>
         ]_vars
    /\ [][dispatch_count' # dispatch_count =>
             /\ Unfinished = {}
             /\ Len(out) = WrittenBefore(batch_start)
             /\ UNCHANGED out
             /\ \A f \in 1..Len(task_arg) : task_arg[f] < batch_start
             /\ \A f \in 1..Len(task_arg') : task_arg'[f] >= batch_start
         ]_vars
    /\ [](Unfinished # {} =>
             /\ pc \in {"p_collect", "a_gather"}
             /\ Len(out) = WrittenBefore(batch_start))

\* C31 witness: both frames of the first batch went through tasks and are
\* written, and a task of the second batch has been dispatched and is running.
C31_Witness ==
    /\ batch_start > 1
    /\ Len(out) = batch_start
    /\ \A i \in 0..(batch_start - 1) : dispatch_count[i] = 1
    /\ Running # {}
    /\ \A f \in 1..Len(task_arg) : task_arg[f] >= batch_start

\* ---------------------------------------------------------------------------
\* Concurrency and memory bounds (under SpecFrames)

\* The input frames ParallelFrameProcessor holds: the frames of batch_data
\* while the batch is submitted and collected.
ExtractedInputs ==
    IF pc \in {"p_submit", "p_collect"}
    THEN Cardinality({k \in 1..Len(batch_data) : batch_data[k].ok})
    ELSE 0

\* v is a frame of its own: not None, not an exception and not the input
\* frame handed back unchanged.
OwnFrame(v) == v.kind \in {"composited", "filler"}

\* The results not yet written: in ParallelFrameProcessor the filled slots of
\* results and the results of the futures as_completed has not yielded yet,
\* in AsyncFrameProcessor the frames returned by the finished tasks.
UnwrittenResults ==
    CASE pc = "p_collect" ->
            Cardinality({k \in 1..Len(results) : OwnFrame(results[k])})
            + Cardinality({n \in (ncollected + 1)..Len(finish_order) :
                              OwnFrame(task_val[finish_order[n]])})
      [] pc = "a_gather" ->
            Cardinality({f \in 1..Len(task_state) :
                            task_state[f] = "finished" /\ OwnFrame(task_val[f])})
      [] OTHER -> 0

\* The frames read by the running tasks of AsyncFrameProcessor.
FramesInTasks == IF pc = "a_gather" THEN Cardinality(Running) ELSE 0

HeldFrames == ExtractedInputs + FramesInTasks + UnwrittenResults

\* 100 for ParallelFrameProcessor, 50 for AsyncFrameProcessor.
HeldLimit == IF processor = "parallel" THEN BatchLimit ELSE ChunkSize

\* C32: in both processors at most max_workers tasks run at any moment, and
\* the frames held, extracted inputs plus unwritten results, are at most the
\* batch size of the processor.
C32_WorkersAndMemoryBounded ==
    /\ Cardinality(Running) <= max_workers
    /\ HeldFrames <= HeldLimit

\* The pool is full and a task is left waiting for a worker.
PoolFullTaskWaiting ==
    /\ Cardinality(Running) = max_workers
    /\ \E f \in 1..Len(task_state) : task_state[f] = "queued"

\* Supporting facts: the pool bound holds; AsyncFrameProcessor holds at most
\* a chunk of frames; ParallelFrameProcessor holds at most two batches,
\* whatever max_workers is.
PoolBound == Cardinality(Running) <= max_workers
AsyncHeldBound == processor = "async" => HeldFrames <= ChunkSize
ParallelHeldBound == processor = "parallel" => HeldFrames <= 2 * BatchLimit

\* ---------------------------------------------------------------------------
\* The replaced count of ParallelFrameProcessor (under SpecFrames)

\* The output positions that hold a blank filler frame.
FillerPositions == {p \in 1..Len(out) : out[p] = Blank}

\* C33: the count ParallelFrameProcessor.process_frames returns excludes
\* every blank filler frame it wrote, whether the read of the frame failed
\* or its whole batch could not be extracted.
C33_ReplacedExcludesFiller ==
    ParallelReturned =>
        replaced_count <= Len(out) - Cardinality(FillerPositions)

\* Supporting facts: the count is the number of frames in the batches that
\* could be extracted, the unread frames among them included; the fillers
\* of a batch that could not be extracted are not counted.
ReplacedCountsExtractedBatches ==
    ParallelReturned =>
        replaced_count =
            Cardinality({i \in Frames : BatchStartOf(i) \notin open_fails})
UnextractedBatchNotCounted ==
    (ParallelReturned /\ open_fails = BatchStarts(total_frames)) =>
        replaced_count = 0

\* ---------------------------------------------------------------------------
\* A video without frames (under SpecFrames)

\* C34: process_frames called with total_frames = 0 does not raise, in
\* either processor, and has, once it is left, written no frame, released
\* the writer and returned 0.
C34_EmptyVideoReturnsZero ==
    (invoked /\ total_frames = 0) =>
        /\ pc # "raised"
        /\ out = << >>
        /\ pc = "returned" => (writer = "released" /\ replaced_count = 0)

\* Supporting facts: AsyncFrameProcessor behaves so; ParallelFrameProcessor
\* leaves process_frames by an exception, the writer released and no frame
\* written.
AsyncEmptyVideoReturnsZero ==
    (invoked /\ total_frames = 0 /\ processor = "async") =>
        /\ pc \in {"a_chunk", "returned"}
        /\ out = << >>
        /\ pc = "returned" => (writer = "released" /\ replaced_count = 0)
ParallelEmptyVideoRaises ==
    (invoked /\ total_frames = 0 /\ processor = "parallel") =>
        (pc = "raised" /\ writer = "released" /\ out = << >>)

\* ---------------------------------------------------------------------------
\* Unreadable samples (under SpecDetect)

\* C35: when one of the three sample positions cannot be read, the weighted
\* score of every catalog entry is 0, detect_best_book returns no match
\* whatever min_conf and the scores on the readable samples are, and no
\* homography is computed.
C35_UnreadableSampleNoMatch ==
    readable_samples # Samples =>
        /\ \A b \in 1..Len(catalog) :
              calculate_book_weighted_score(catalog[b].scores) = 0
        /\ homographies_computed = 0
        /\ best = 0
        /\ det_pc = "returned" => det_result = 0

\* C35 witness: two samples were read, an entry scores the maximum on both
\* and has a homography, min_conf is 0, and detect_best_book returned no match
\* after the evaluation of the whole catalog.
C35_Witness ==
    /\ det_pc = "returned"
    /\ Cardinality(readable_samples) = 2
    /\ min_conf = 0
    /\ book_index > Len(catalog)
    /\ \E b \in 1..Len(catalog) :
         /\ catalog[b].homography
         /\ \A k \in 1..2 : catalog[b].scores[k] = MaxScore
    /\ det_result = 0

\* ---------------------------------------------------------------------------
\* Single comparison (under SpecCompare)

\* The comparison fails: an image cannot be loaded, or the extractor or the
\* matcher raises.
ComparisonFails ==
    \/ input_image = "none"
    \/ book_image = "none"
    \/ extract_input \in {"raises", "not_a_pair"}
    \/ extract_book \in {"raises", "not_a_pair"}
    \/ /\ match_error # ""
       /\ extract_input = "descriptors"
       /\ extract_book = "descriptors"

\* C36: execute_single_comparison always returns a MatchResult: on a failure
\* one with confidence_score 0, good_matches_count 0, an empty match list and
\* a non-empty error_message, on success one whose confidence_score and
\* good_matches_count are the number of accepted correspondences and whose
\* error_message is absent.
C36_SingleComparisonNeverRaises ==
    /\ cmp_pc \in {"idle", "load", "extract", "match", "returned"}
    /\ cmp_pc = "returned" =>
          IF ComparisonFails
          THEN /\ cmp_result.confidence_score = 0
               /\ cmp_result.good_matches_count = 0
               /\ cmp_result.matches = << >>
               /\ Len(cmp_result.error_message) = 1
               /\ cmp_result.error_message[1] # ""
          ELSE /\ cmp_result.confidence_score = Len(cmp_result.matches)
               /\ cmp_result.good_matches_count = Len(cmp_result.matches)
               /\ Len(cmp_result.matches) =
                     match_features(extract_input, extract_book, accepted)
               /\ cmp_result.error_message = << >>
    /\ cmp_pc # "returned" => cmp_result = NoComparison

\* C36 witness: the matcher raised on the descriptors of two loaded images
\* and the error result was returned.
C36_Witness ==
    /\ cmp_pc = "returned"
    /\ input_image = "image" /\ book_image = "image"
    /\ extract_input = "descriptors" /\ extract_book = "descriptors"
    /\ match_error # ""
    /\ accepted > 0
    /\ cmp_result = ComparisonError(match_error)

\* ---------------------------------------------------------------------------
\* Only positive results are cached (under SpecRerun)

\* The results of the list rs that belong to the keyframe with cache key k.
ResultsOf(rs, k) == {i \in 1..Len(rs) : rs[i].source_name = k}

\* The keyframe with cache key k has a result in a returned list or in the
\* list being built, or its result is about to be appended.
HasResult(k) ==
    \/ ResultsOf(video_results, k) # {}
    \/ SecondRun /\ ResultsOf(first_results, k) # {}
    \/ vpc = "append" /\ key_idx = k

\* C37: execute writes a metadata record only for a keyframe with a
\* candidate that has at least one accepted correspondence, and appends the
\* result of that keyframe right after; a keyframe without candidates or
\* without such a candidate leaves no record, and a later run, finding none,
\* computes it again.
C37_OnlyPositiveResultsCached ==
    /\ [][meta_files' # meta_files =>
             /\ candidates # << >>
             /\ best_match # NoMatch
             /\ best_match.good_matches_count >= 1
             /\ meta_files' = [meta_files EXCEPT ![key_idx] = MetaOf(best_match)]
             /\ vpc' = "append"
         ]_vars
    /\ [][vpc = "append" =>
             video_results' = Append(video_results, best_match)]_vars
    /\ [](\A k \in Keys : meta_files[k] # NoMeta => HasResult(k))
    /\ [][(vpc \in {"filter", "match"} /\ vpc' = "next") =>
             /\ UNCHANGED <<meta_files, video_results>>
             /\ meta_files[key_idx] = NoMeta
         ]_vars
    /\ [][(SecondRun /\ vpc = "lookup" /\ ResultsOf(first_results, key_idx) = {}) =>
             /\ meta_files[key_idx] = NoMeta
             /\ vpc' = "filter"
         ]_vars

\* C37 witness: in the second run the matcher is about to be called again for
\* a keyframe that has candidates and for which the first run found no
\* accepted correspondence and wrote no record.
C37_Witness ==
    /\ SecondRun
    /\ vpc = "match"
    /\ candidates # << >>
    /\ ResultsOf(first_results, key_idx) = {}
    /\ meta_files[key_idx] = NoMeta

\* ---------------------------------------------------------------------------
\* The trailer frame of an input frame (under SpecFrames)

\* The frames produced so far: written ones and results of finished tasks.
ProducedFrames ==
    {out[p] : p \in 1..Len(out)} \cup {task_val[f] : f \in 1..Len(task_val)}

\* C38: in both processors, the trailer having L >= 1 frames, the trailer
\* frame composited into input frame i is frame i while i is below L and the
\* last trailer frame from then on; its index is always within 0..L-1.
C38_TrailerIndexClamped ==
    \A v \in ProducedFrames :
        v.kind = "composited" =>
            /\ v.tr \in 0..(trailer_len - 1)
            /\ v.tr = IF v.src < trailer_len THEN v.src ELSE trailer_len - 1

\* C38 witness: with a trailer of two frames the first input frame was
\* written with trailer frame 0 and the third, beyond the end of the
\* trailer, with the last trailer frame.
C38_Witness ==
    /\ trailer_len = 2
    /\ Len(out) = 3
    /\ out[1].kind = "composited" /\ out[1].tr = 0
    /\ out[3].kind = "composited" /\ out[3].src = 2 /\ out[3].tr = 1

====
